---------------------------- MODULE Spec2Model ----------------------------
(***************************************************************************)
(* Model of the fee-grading module (grading-system.js) of Project-Ralph.   *)
(*                                                                         *)
(* Number representation.  JavaScript values that reach the grader are     *)
(* modelled as records [kind, n]:                                          *)
(*   kind = "number"    a finite number; n is the amount in cents when the *)
(*                      value is a currency amount, and the number itself  *)
(*                      when it is a category score (0..100);              *)
(*   kind = "Infinity"  +Infinity;                                         *)
(*   kind = "undefined" the value of an absent argument or field;          *)
(*   kind = "NaN"       the result of arithmetic on undefined;             *)
(*   kind = "string"    a string that does not convert to a number.        *)
(* Weighted sums and means are not integers; they are kept exactly as      *)
(* fractions [kind, num, den, ulp] denoting num/den, where ulp = -1 marks  *)
(* a value whose IEEE-754 double lies just below that exact fraction.      *)
(***************************************************************************)
EXTENDS Integers, Sequences, FiniteSets, TLC

\* ------------------------------------------------------------------------
\* Bounds of the explored input space
\* ------------------------------------------------------------------------

\* regular grid of fee amounts: k * $125.00 for k in 0..MaxGrid
MaxGrid == 18

\* longest deal list handed to gradeDealer
MaxDeals == 2

\* ------------------------------------------------------------------------
\* JavaScript values
\* ------------------------------------------------------------------------

Num(c) == [kind |-> "number", n |-> c]

Infinity == [kind |-> "Infinity", n |-> 0]

Undefined == [kind |-> "undefined", n |-> 0]

NaN == [kind |-> "NaN", n |-> 0]

\* a string that is not the text of a number, such as "abc"
NotANumber == [kind |-> "string", n |-> 0]

IsNumeric(v) == v.kind \in {"number", "Infinity"}

\* a >= b on JavaScript numbers; false as soon as one side is undefined/NaN
GreaterEq(a, b) ==
    /\ IsNumeric(a) /\ IsNumeric(b)
    /\ \/ a.kind = "Infinity"
       \/ a.kind = "number" /\ b.kind = "number" /\ a.n >= b.n

\* a < b on JavaScript numbers; false as soon as one side is undefined/NaN
LessThan(a, b) ==
    /\ IsNumeric(a) /\ IsNumeric(b)
    /\ a.kind = "number"
    /\ \/ b.kind = "Infinity"
       \/ b.kind = "number" /\ a.n < b.n

\* an exact fraction num/den (den > 0)
Frac(num, den, ulp) == [kind |-> "number", num |-> num, den |-> den, ulp |-> ulp]

FracNaN == [kind |-> "NaN", num |-> 0, den |-> 1, ulp |-> 0]

\* score >= b for a fraction score and an integer b, as the double compares
FracGreaterEq(s, b) ==
    /\ s.kind = "number"
    /\ \/ s.num > b * s.den
       \/ s.num = b * s.den /\ s.ulp = 0

\* ------------------------------------------------------------------------
\* GRADING_THRESHOLDS (amounts in cents)
\* ------------------------------------------------------------------------

GradeLetters == <<"A", "B", "C", "D", "F">>

THRESHOLDS_INIT ==
    [excessive_fees |->
        [A |-> [min |-> Num(0),       max |-> Num(45000),   label |-> "Excellent", color |-> "#10b981", description |-> "Very low excessive fees"],
         B |-> [min |-> Num(45000),   max |-> Num(55000),   label |-> "Good",      color |-> "#3b82f6", description |-> "Low excessive fees"],
         C |-> [min |-> Num(55000),   max |-> Num(124800),  label |-> "Average",   color |-> "#f59e0b", description |-> "Typical excessive fees"],
         D |-> [min |-> Num(124800),  max |-> Num(1276700), label |-> "Poor",      color |-> "#ef4444", description |-> "High excessive fees"],
         F |-> [min |-> Num(1276700), max |-> Infinity,     label |-> "Failing",   color |-> "#dc2626", description |-> "Extremely high excessive fees"]],
     illegitimate_fees |->
        [A |-> [min |-> Num(0),       max |-> Num(45150),   label |-> "Excellent", color |-> "#10b981", description |-> "Very low illegitimate fees"],
         B |-> [min |-> Num(45150),   max |-> Num(123125),  label |-> "Good",      color |-> "#3b82f6", description |-> "Low illegitimate fees"],
         C |-> [min |-> Num(123125),  max |-> Num(267425),  label |-> "Average",   color |-> "#f59e0b", description |-> "Typical illegitimate fees"],
         D |-> [min |-> Num(267425),  max |-> Num(1903945), label |-> "Poor",      color |-> "#ef4444", description |-> "High illegitimate fees"],
         F |-> [min |-> Num(1903945), max |-> Infinity,     label |-> "Failing",   color |-> "#dc2626", description |-> "Extremely high illegitimate fees"]]]

\* ------------------------------------------------------------------------
\* getGrade: first band, in key order, with min <= amount < max
\* ------------------------------------------------------------------------

\* mutation: the band is open below and closed above
InBand_UpperInclusive(amount, criteria) ==
    /\ GreaterEq(amount, criteria.min) /\ amount # criteria.min
    /\ LessThan(amount, criteria.max) \/ amount = criteria.max

InBand(amount, criteria) ==
    GreaterEq(amount, criteria.min) /\ LessThan(amount, criteria.max)

getGrade(table, amount, feeType) ==
    LET thresholds == table[feeType]
        hits == {k \in 1..Len(GradeLetters) : InBand(amount, thresholds[GradeLetters[k]])}
    IN  IF hits # {}
        THEN LET k == CHOOSE h \in hits : \A o \in hits : h <= o
                 criteria == thresholds[GradeLetters[k]]
             IN  [grade |-> GradeLetters[k],
                  label |-> criteria.label,
                  color |-> criteria.color,
                  description |-> criteria.description,
                  amount |-> amount]
        ELSE [grade |-> "F",
              label |-> "Failing",
              color |-> "#dc2626",
              description |-> "Extremely high fees",
              amount |-> amount]

\* gradeDeal's excessiveGrade.feeType = ... on the fresh grade object
WithFeeType(g, t) ==
    [grade |-> g.grade, label |-> g.label, color |-> g.color,
     description |-> g.description, amount |-> g.amount, feeType |-> t]

\* ------------------------------------------------------------------------
\* getGradeScore
\* ------------------------------------------------------------------------

\* Amounts (cents) with 100 - amount/maxThreshold*100 exactly on a half in
\* real arithmetic whose double evaluation falls just below the half, so
\* that Math.round goes down instead of up.
DoubleBelowHalf ==
    {<<"excessive", 54500>>, <<"excessive", 55500>>,
     <<"illegitimate", 109000>>, <<"illegitimate", 111000>>}

\* Math.round(Math.max(0, 100 - (cents/100) / maxThreshold * 100))
RoundedScore(cents, maxThreshold, feeType) ==
    LET raw == 100 * maxThreshold - cents                 \* in 1/maxThreshold points
        clamped == IF raw < 0 THEN 0 ELSE raw             \* Math.max(0, .)
        halfUp == (2 * clamped + maxThreshold) \div (2 * maxThreshold)
        key == <<(IF feeType = "excessive" THEN "excessive" ELSE "illegitimate"), cents>>
    IN  IF key \in DoubleBelowHalf THEN halfUp - 1 ELSE halfUp

\* mutation: feeType is compared with the table key, so every category
\* is scored against the 2000 ceiling
getGradeScore_TableKey(gradeInfo) ==
    LET amount == gradeInfo.amount
        feeType == gradeInfo.feeType
        maxThreshold == IF feeType = "excessive_fees" THEN 1000 ELSE 2000
    IN  IF amount = Num(0) THEN Num(100)
        ELSE IF amount.kind = "number" THEN Num(RoundedScore(amount.n, maxThreshold, feeType))
        ELSE IF amount.kind = "Infinity" THEN Num(0)
        ELSE NaN

\* mutation: the score is read off the descriptive letter (A=95 ... F=55)
getGradeScore_LetterTable(gradeInfo) ==
    IF gradeInfo.grade = "A" THEN Num(95)
    ELSE IF gradeInfo.grade = "B" THEN Num(85)
    ELSE IF gradeInfo.grade = "C" THEN Num(75)
    ELSE IF gradeInfo.grade = "D" THEN Num(65)
    ELSE Num(55)

\* mutation: the score is not clamped at 0
getGradeScore_NoClamp(gradeInfo) ==
    LET amount == gradeInfo.amount
        maxThreshold == IF gradeInfo.feeType = "excessive" THEN 1000 ELSE 2000
    IN  IF amount = Num(0) THEN Num(100)
        ELSE IF amount.kind = "number"
             THEN Num((2 * (100 * maxThreshold - amount.n) + maxThreshold) \div (2 * maxThreshold))
        ELSE IF amount.kind = "Infinity" THEN Num(0)
        ELSE NaN

\* mutation: the percentage of the ceiling is returned instead of its
\* complement
getGradeScore_Rising(gradeInfo) ==
    LET amount == gradeInfo.amount
        maxThreshold == IF gradeInfo.feeType = "excessive" THEN 1000 ELSE 2000
    IN  IF amount = Num(0) THEN Num(100)
        ELSE IF amount.kind = "number"
             THEN Num((2 * amount.n + maxThreshold) \div (2 * maxThreshold))
        ELSE IF amount.kind = "Infinity" THEN Num(0)
        ELSE NaN

getGradeScore(gradeInfo) ==
    LET amount == gradeInfo.amount
        feeType == gradeInfo.feeType
        maxThreshold == IF feeType = "excessive" THEN 1000 ELSE 2000
    IN  IF amount = Num(0) THEN Num(100)
        ELSE IF amount.kind = "number" THEN Num(RoundedScore(amount.n, maxThreshold, feeType))
        ELSE IF amount.kind = "Infinity" THEN Num(0)
        ELSE NaN

\* ------------------------------------------------------------------------
\* getGradeFromScore
\* ------------------------------------------------------------------------

\* mutation: the bands are open at their lower edge (score > 90, ...)
getGradeFromScore_StrictBands(score) ==
    IF score.kind = "number" /\ score.num > 90 * score.den
    THEN [grade |-> "A", label |-> "Excellent", color |-> "#10b981"]
    ELSE IF score.kind = "number" /\ score.num > 80 * score.den
    THEN [grade |-> "B", label |-> "Good", color |-> "#3b82f6"]
    ELSE IF score.kind = "number" /\ score.num > 70 * score.den
    THEN [grade |-> "C", label |-> "Average", color |-> "#f59e0b"]
    ELSE IF score.kind = "number" /\ score.num > 60 * score.den
    THEN [grade |-> "D", label |-> "Poor", color |-> "#ef4444"]
    ELSE [grade |-> "F", label |-> "Failing", color |-> "#dc2626"]

getGradeFromScore(score) ==
    IF FracGreaterEq(score, 90) THEN [grade |-> "A", label |-> "Excellent", color |-> "#10b981"]
    ELSE IF FracGreaterEq(score, 80) THEN [grade |-> "B", label |-> "Good", color |-> "#3b82f6"]
    ELSE IF FracGreaterEq(score, 70) THEN [grade |-> "C", label |-> "Average", color |-> "#f59e0b"]
    ELSE IF FracGreaterEq(score, 60) THEN [grade |-> "D", label |-> "Poor", color |-> "#ef4444"]
    ELSE [grade |-> "F", label |-> "Failing", color |-> "#dc2626"]

\* ------------------------------------------------------------------------
\* gradeDeal
\* ------------------------------------------------------------------------

\* Pairs of category scores whose double sum e*0.4 + i*0.6 lies below a
\* band threshold (60, 70, 80, 90) that the exact sum reaches:
\* 6*0.4 + 96*0.6 evaluates to 59.99999999999999.
DoubleBelowBand == {<<6, 96>>}

\* mutation: the weighted sum is rounded to an integer
WeightedScore_Rounded(excessiveScore, illegitimateScore) ==
    IF excessiveScore.kind = "number" /\ illegitimateScore.kind = "number"
    THEN Frac((4 * excessiveScore.n + 6 * illegitimateScore.n + 5) \div 10, 1, 0)
    ELSE FracNaN

\* mutation: both categories are weighted 0.6
WeightedScore_BothSixty(excessiveScore, illegitimateScore) ==
    IF excessiveScore.kind = "number" /\ illegitimateScore.kind = "number"
    THEN Frac(6 * excessiveScore.n + 6 * illegitimateScore.n, 10, 0)
    ELSE FracNaN

\* (excessiveScore * 0.4) + (illegitimateScore * 0.6), not rounded
WeightedScore(excessiveScore, illegitimateScore) ==
    IF excessiveScore.kind = "number" /\ illegitimateScore.kind = "number"
    THEN Frac(4 * excessiveScore.n + 6 * illegitimateScore.n, 10,
              IF <<excessiveScore.n, illegitimateScore.n>> \in DoubleBelowBand THEN -1 ELSE 0)
    ELSE FracNaN

gradeDeal(table, excessiveFees, illegitimateFees) ==
    LET excessiveGrade == WithFeeType(getGrade(table, excessiveFees, "excessive_fees"), "excessive")
        illegitimateGrade == WithFeeType(getGrade(table, illegitimateFees, "illegitimate_fees"), "illegitimate")
        excessiveScore == getGradeScore(excessiveGrade)
        illegitimateScore == getGradeScore(illegitimateGrade)
        overallScore == WeightedScore(excessiveScore, illegitimateScore)
        overallGrade == getGradeFromScore(overallScore)
    IN  [excessive |-> excessiveGrade,
         illegitimate |-> illegitimateGrade,
         overall |-> overallGrade,
         scores |-> [excessive |-> excessiveScore,
                     illegitimate |-> illegitimateScore,
                     overall |-> overallScore]]

\* ------------------------------------------------------------------------
\* gradeDealer
\* ------------------------------------------------------------------------

\* the deals argument: absent, or an array of deal records
NoDeals == [kind |-> "undefined", items |-> <<>>]

Arr(items) == [kind |-> "array", items |-> items]

\* deal.<name>: undefined when the record has no such property
Field(deal, name) == IF name \in DOMAIN deal THEN deal[name] ELSE Undefined

RECURSIVE SumInt(_, _)
\* reduce((sum, k) => sum + f[k], 0) over the index set idx
SumInt(f, idx) ==
    IF idx = {} THEN 0
    ELSE LET k == CHOOSE x \in idx : TRUE
         IN  f[k] + SumInt(f, idx \ {k})

\* reduce((sum, v) => sum + v, 0) / length over JavaScript numbers vals[k].n
\* (0 / 0, any sum with undefined, and a string concatenation divided by
\* the length are NaN)
MeanOfNums(vals) ==
    LET n == Len(vals)
    IN  IF n = 0 \/ \E k \in 1..n : ~IsNumeric(vals[k]) THEN FracNaN
        ELSE IF \E k \in 1..n : vals[k].kind = "Infinity"
             THEN [kind |-> "Infinity", num |-> 0, den |-> 1, ulp |-> 0]
        ELSE Frac(SumInt([k \in 1..n |-> vals[k].n], 1..n), n, 0)

\* mutation: the sum of the overall scores is not divided by the number of
\* deals
MeanOfFracs_Sum(vals) ==
    LET n == Len(vals)
    IN  IF n = 0 \/ \E k \in 1..n : vals[k].kind # "number" THEN FracNaN
        ELSE Frac(SumInt([k \in 1..n |-> vals[k].num], 1..n),
                  vals[1].den,
                  IF \A k \in 1..n : vals[k].ulp = -1 THEN -1 ELSE 0)

\* lists of overall scores, in tenths of a point, whose double mean lies
\* just below the exact one: (0.4 + 0.4 + 0.6 + 0.4) / 4 is
\* 0.44999999999999996 and (0.6 + 0.6 + 0.6 + 0.4) / 4 is 0.5499999999999999
DoubleBelowMean == {<<4, 4, 6, 4>>, <<4, 6, 4, 4>>, <<6, 4, 4, 4>>, <<6, 6, 6, 4>>}

\* reduce((sum, d) => sum + d.scores.overall, 0) / length.  The double sum
\* absorbs the deficit of a summand marked ulp = -1 as soon as another
\* summand is exact; it survives only when every summand carries it.
MeanOfFracs(vals) ==
    LET n == Len(vals)
    IN  IF n = 0 \/ \E k \in 1..n : vals[k].kind # "number" THEN FracNaN
        ELSE Frac(SumInt([k \in 1..n |-> vals[k].num], 1..n),
                  vals[1].den * n,
                  IF \/ \A k \in 1..n : vals[k].ulp = -1
                     \/ /\ \A k \in 1..n : vals[k].den = 10
                        /\ [k \in 1..n |-> vals[k].num] \in DoubleBelowMean
                  THEN -1 ELSE 0)

\* Math.round(x) of the non-negative fraction num/den: half rounds up
RoundHalfUp(num, den) == (2 * num + den) \div (2 * den)

\* x.toFixed(1) in tenths: the nearest tenth of the double, so a mean
\* exactly half-way between two tenths goes up unless its double lies
\* below it
ToFixed1(x) ==
    LET t == RoundHalfUp(10 * x.num, x.den)
    IN  IF x.ulp = -1 /\ 20 * x.num = (2 * t - 1) * x.den THEN t - 1 ELSE t

NoDataText == "No analysis-stage deals available for grading"

DealerTemplate == "Based on ${dealCount} analysis-stage deals with an average score of ${avgScore.toFixed(1)}/100. ${topGradePercentage}% of deals received A or B grades. Grade distribution: A(${distribution.A}), B(${distribution.B}), C(${distribution.C}), D(${distribution.D}), F(${distribution.F})."

\* mutation: only the A grades count as top grades
generateDealerExplanation_OnlyA(grade, dealCount, avgScore, distribution) ==
    LET totalDeals == distribution.A + distribution.B + distribution.C
                      + distribution.D + distribution.F
        topGrades == distribution.A
        topGradePercentage == IF totalDeals > 0
                              THEN RoundHalfUp(topGrades * 100, totalDeals)
                              ELSE 0
    IN  [text |-> DealerTemplate,
         dealCount |-> dealCount,
         avgScore |-> IF avgScore.kind = "number"
                      THEN ToFixed1(avgScore)
                      ELSE -1,
         topGradePercentage |-> topGradePercentage,
         distribution |-> distribution]

\* the template string, kept as the template and the values of its slots;
\* avgScore is the score in tenths as toFixed(1) prints it (-1 for "NaN")
generateDealerExplanation(grade, dealCount, avgScore, distribution) ==
    LET totalDeals == distribution.A + distribution.B + distribution.C
                      + distribution.D + distribution.F
        topGrades == distribution.A + distribution.B
        topGradePercentage == IF totalDeals > 0
                              THEN RoundHalfUp(topGrades * 100, totalDeals)
                              ELSE 0
    IN  [text |-> DealerTemplate,
         dealCount |-> dealCount,
         avgScore |-> IF avgScore.kind = "number"
                      THEN ToFixed1(avgScore)
                      ELSE -1,
         topGradePercentage |-> topGradePercentage,
         distribution |-> distribution]

\* the sentinel returned when there is nothing to grade
NoDataGrade ==
    [grade |-> "N/A",
     label |-> "No Data",
     color |-> "#64748b",
     dealCount |-> 0,
     averageScores |-> [excessive |-> Frac(0, 1, 0),
                        illegitimate |-> Frac(0, 1, 0),
                        overall |-> Frac(0, 1, 0)],
     explanation |-> [text |-> NoDataText]]

\* mutation: the histogram counts the deals' excessive-fee letters
DealerSummary_CategoryLetters(items, dealGrades) ==
    LET n == Len(items)
        avgOverallScore == MeanOfFracs([k \in 1..n |-> dealGrades[k].scores.overall])
        overallGrade == getGradeFromScore(avgOverallScore)
        gradeDistribution ==
            [A |-> Cardinality({k \in 1..n : dealGrades[k].excessive.grade = "A"}),
             B |-> Cardinality({k \in 1..n : dealGrades[k].excessive.grade = "B"}),
             C |-> Cardinality({k \in 1..n : dealGrades[k].excessive.grade = "C"}),
             D |-> Cardinality({k \in 1..n : dealGrades[k].excessive.grade = "D"}),
             F |-> Cardinality({k \in 1..n : dealGrades[k].excessive.grade = "F"})]
    IN  [grade |-> overallGrade.grade,
         label |-> overallGrade.label,
         color |-> overallGrade.color,
         dealCount |-> n,
         averageScores |-> [excessive |-> MeanOfNums([k \in 1..n |-> dealGrades[k].scores.excessive]),
                            illegitimate |-> MeanOfNums([k \in 1..n |-> dealGrades[k].scores.illegitimate]),
                            overall |-> avgOverallScore],
         averageFees |-> [excessive |-> MeanOfNums([k \in 1..n |-> Field(items[k], "excessive_fees")]),
                          illegitimate |-> MeanOfNums([k \in 1..n |-> Field(items[k], "illegitimate_fees")])],
         dealGrades |-> dealGrades,
         gradeDistribution |-> gradeDistribution,
         explanation |-> generateDealerExplanation(overallGrade, n, avgOverallScore,
                                                   gradeDistribution)]

\* the averages, histogram and explanation of the graded deals
DealerSummary(items, dealGrades) ==
    LET n == Len(items)
        avgExcessiveScore == MeanOfNums([k \in 1..n |-> dealGrades[k].scores.excessive])
        avgIllegitimateScore == MeanOfNums([k \in 1..n |-> dealGrades[k].scores.illegitimate])
        avgOverallScore == MeanOfFracs([k \in 1..n |-> dealGrades[k].scores.overall])
        overallGrade == getGradeFromScore(avgOverallScore)
        gradeDistribution ==
            [A |-> Cardinality({k \in 1..n : dealGrades[k].overall.grade = "A"}),
             B |-> Cardinality({k \in 1..n : dealGrades[k].overall.grade = "B"}),
             C |-> Cardinality({k \in 1..n : dealGrades[k].overall.grade = "C"}),
             D |-> Cardinality({k \in 1..n : dealGrades[k].overall.grade = "D"}),
             F |-> Cardinality({k \in 1..n : dealGrades[k].overall.grade = "F"})]
        avgExcessiveFees == MeanOfNums([k \in 1..n |-> Field(items[k], "excessive_fees")])
        avgIllegitimateFees == MeanOfNums([k \in 1..n |-> Field(items[k], "illegitimate_fees")])
    IN  [grade |-> overallGrade.grade,
         label |-> overallGrade.label,
         color |-> overallGrade.color,
         dealCount |-> n,
         averageScores |-> [excessive |-> avgExcessiveScore,
                            illegitimate |-> avgIllegitimateScore,
                            overall |-> avgOverallScore],
         averageFees |-> [excessive |-> avgExcessiveFees,
                          illegitimate |-> avgIllegitimateFees],
         dealGrades |-> dealGrades,
         gradeDistribution |-> gradeDistribution,
         explanation |-> generateDealerExplanation(overallGrade, n, avgOverallScore,
                                                   gradeDistribution)]

\* mutation: the empty array is not caught by the guard
gradeDealer_NoEmptyGuard(table, deals) ==
    IF deals.kind = "undefined"
    THEN NoDataGrade
    ELSE DealerSummary(deals.items,
                       [k \in 1..Len(deals.items) |->
                           gradeDeal(table, Field(deals.items[k], "excessive_fees"),
                                            Field(deals.items[k], "illegitimate_fees"))])

\* mutation: the deals' totals are read under the camelCase property names
gradeDealer_CamelFields(table, deals) ==
    IF deals.kind = "undefined" \/ Len(deals.items) = 0
    THEN NoDataGrade
    ELSE DealerSummary(deals.items,
                       [k \in 1..Len(deals.items) |->
                           gradeDeal(table, Field(deals.items[k], "excessiveFees"),
                                            Field(deals.items[k], "illegitimateFees"))])

gradeDealer(table, deals) ==
    IF deals.kind = "undefined" \/ Len(deals.items) = 0
    THEN NoDataGrade
    ELSE DealerSummary(deals.items,
                       [k \in 1..Len(deals.items) |->
                           gradeDeal(table, Field(deals.items[k], "excessive_fees"),
                                            Field(deals.items[k], "illegitimate_fees"))])

\* ------------------------------------------------------------------------
\* Explored inputs
\* ------------------------------------------------------------------------

\* band edges of both tables and their neighbours, the category ceilings,
\* the amounts scoring on a band edge of the overall score, half-point
\* amounts, and the spec's worked examples (cents)
SpecialCents ==
    {0, 1, 500, 1000, 8000, 10000, 20000, 44999, 45000, 45149, 45150, 50000,
     54500, 54999, 55000, 94000, 99949, 99950, 100000, 109000, 123124, 123125,
     124799, 124800, 199900, 200000, 267424, 267425, 1276699, 1276700,
     1903944, 1903945, 2500000}

GridCents == {k * 12500 : k \in 0..MaxGrid}

\* non-negative numeric fee totals
Amounts == {Num(c) : c \in SpecialCents \cup GridCents} \cup {Infinity}

\* every value a caller may pass as a fee total
FeeInputs == Amounts \cup {Undefined, NotANumber}

FeeTypes == {"excessive_fees", "illegitimate_fees"}

\* deal records as the rankings endpoint builds them: one deal for each
\* overall letter, the deal scoring 6 and 96, and two ways of failing
SnakeDeals ==
    {[excessive_fees |-> Num(0),      illegitimate_fees |-> Num(0)],
     [excessive_fees |-> Num(0),      illegitimate_fees |-> Num(40000)],
     [excessive_fees |-> Num(25000),  illegitimate_fees |-> Num(50000)],
     [excessive_fees |-> Num(40000),  illegitimate_fees |-> Num(80000)],
     [excessive_fees |-> Num(94000),  illegitimate_fees |-> Num(8000)],
     [excessive_fees |-> Num(100000), illegitimate_fees |-> Num(200000)],
     [excessive_fees |-> Num(0),      illegitimate_fees |-> Num(200000)]}

\* deal records carrying other property names, or lacking a property
OtherDeals ==
    {[excessiveFees |-> Num(0), illegitimateFees |-> Num(0)],
     [excessiveFees |-> Num(100000), illegitimateFees |-> Num(200000)]}
    \cup {[excessive_fees |-> Num(e)] : e \in {0, 100000}}
    \cup {[illegitimate_fees |-> Num(i)] : i \in {0}}
    \cup {[excessive_fees |-> NotANumber, illegitimate_fees |-> Num(0)]}

Deals == SnakeDeals \cup OtherDeals

DealLists == UNION {[1..n -> Deals] : n \in 0..MaxDeals}

DealsInputs == {NoDeals} \cup {Arr(l) : l \in DealLists}

\* ------------------------------------------------------------------------
\* What a call leaves behind in the objects it was handed
\* ------------------------------------------------------------------------

\* mutation: getGrade closes band A of the table it has just read
TableAfterGetGrade_ClosesA(table, amount, feeType) ==
    [table EXCEPT ![feeType].A.max = table[feeType].A.min]

\* getGrade reads GRADING_THRESHOLDS[feeType] and builds a fresh object
TableAfterGetGrade(table, amount, feeType) == table

\* gradeDeal: two getGrade calls; feeType is set on the fresh grade objects
TableAfterGradeDeal(table, excessiveFees, illegitimateFees) ==
    TableAfterGetGrade(TableAfterGetGrade(table, excessiveFees, "excessive_fees"),
                       illegitimateFees, "illegitimate_fees")

RECURSIVE TableAfterDeals(_, _, _)
\* deals.map(deal => gradeDeal(...)) over the items from position k on
TableAfterDeals(table, items, k) ==
    IF k > Len(items) THEN table
    ELSE TableAfterDeals(TableAfterGradeDeal(table,
                                             Field(items[k], "excessive_fees"),
                                             Field(items[k], "illegitimate_fees")),
                         items, k + 1)

TableAfterGradeDealer(table, deals) ==
    IF deals.kind = "undefined" \/ Len(deals.items) = 0
    THEN table
    ELSE TableAfterDeals(table, deals.items, 1)

\* mutation: the fee fields read from a deal are written back, a missing
\* one as 0
DealsAfterGradeDealer_Defaulted(deals) ==
    [kind |-> deals.kind,
     items |-> [k \in 1..Len(deals.items) |->
                   [excessive_fees |->
                        IF "excessive_fees" \in DOMAIN deals.items[k]
                        THEN deals.items[k].excessive_fees ELSE Num(0),
                    illegitimate_fees |->
                        IF "illegitimate_fees" \in DOMAIN deals.items[k]
                        THEN deals.items[k].illegitimate_fees ELSE Num(0)]]]

\* gradeDealer only reads its argument: map and reduce build new arrays
\* and numbers
DealsAfterGradeDealer(deals) == deals

\* ------------------------------------------------------------------------
\* State: the module-level table, and one caller issuing grading calls
\* ------------------------------------------------------------------------

\* GRADING_THRESHOLDS  the module-level table
\* pc, call, ret       the caller: idle, or holding the result ret of call
\* callerDeals         the caller's deals array as the call left it
\* called              whether an earlier call has completed
\* smartMCPClient      the SmartMCPClient instance: which clients are
\*                     available and which one is current
VARIABLES GRADING_THRESHOLDS, pc, call, ret, callerDeals, called, smartMCPClient

vars == <<GRADING_THRESHOLDS, pc, call, ret, callerDeals, called, smartMCPClient>>

\* no SmartMCPClient has been constructed
NoClient == [constructed |-> FALSE]

NoCall == [op |-> "none"]

NoRet == [none |-> TRUE]

Init ==
    /\ GRADING_THRESHOLDS = THRESHOLDS_INIT
    /\ pc = "idle"
    /\ call = NoCall
    /\ ret = NoRet
    /\ callerDeals = NoDeals
    /\ called = FALSE
    /\ smartMCPClient = NoClient

CallGetGrade ==
    /\ pc = "idle"
    /\ \E amount \in FeeInputs, feeType \in FeeTypes :
          /\ call' = [op |-> "getGrade", amount |-> amount, feeType |-> feeType]
          /\ ret' = getGrade(GRADING_THRESHOLDS, amount, feeType)
          /\ GRADING_THRESHOLDS' = TableAfterGetGrade(GRADING_THRESHOLDS, amount, feeType)
    /\ pc' = "returned"
    /\ UNCHANGED <<callerDeals, called, smartMCPClient>>

CallGradeDeal ==
    /\ pc = "idle"
    /\ \E excessiveFees \in FeeInputs, illegitimateFees \in FeeInputs :
          /\ call' = [op |-> "gradeDeal", excessiveFees |-> excessiveFees,
                      illegitimateFees |-> illegitimateFees]
          /\ ret' = gradeDeal(GRADING_THRESHOLDS, excessiveFees, illegitimateFees)
          /\ GRADING_THRESHOLDS' =
                TableAfterGradeDeal(GRADING_THRESHOLDS, excessiveFees, illegitimateFees)
    /\ pc' = "returned"
    /\ UNCHANGED <<callerDeals, called, smartMCPClient>>

CallGradeDealer ==
    /\ pc = "idle"
    /\ \E deals \in DealsInputs :
          /\ call' = [op |-> "gradeDealer", deals |-> deals]
          /\ ret' = gradeDealer(GRADING_THRESHOLDS, deals)
          /\ GRADING_THRESHOLDS' = TableAfterGradeDealer(GRADING_THRESHOLDS, deals)
          /\ callerDeals' = DealsAfterGradeDealer(deals)
    /\ pc' = "returned"
    /\ UNCHANGED <<called, smartMCPClient>>

\* the caller takes the returned value and is ready for its next call
Return ==
    /\ pc = "returned"
    /\ pc' = "idle"
    /\ call' = NoCall
    /\ ret' = NoRet
    /\ callerDeals' = NoDeals
    /\ called' = TRUE
    /\ UNCHANGED <<GRADING_THRESHOLDS, smartMCPClient>>

Next == CallGetGrade \/ CallGradeDeal \/ CallGradeDealer \/ Return

Spec == Init /\ [][Next]_vars

\* ------------------------------------------------------------------------
\* Properties
\* ------------------------------------------------------------------------

Letters == {"A", "B", "C", "D", "F"}

ReturnedDeal == pc = "returned" /\ call.op = "gradeDeal"

\* gradeDeal has returned from a call with two non-negative numbers
ReturnedNumericDeal ==
    /\ ReturnedDeal
    /\ IsNumeric(call.excessiveFees)
    /\ IsNumeric(call.illegitimateFees)

ReturnedGrade == pc = "returned" /\ call.op = "getGrade"

ReturnedDealer == pc = "returned" /\ call.op = "gradeDealer"

\* max(0, 100 - amount/ceiling*100) in units of 1/ceiling points
\* (ceiling in currency units, the amount in cents)
ClampedTimesCeiling(amount, ceiling) ==
    IF amount.kind = "Infinity" \/ 100 * ceiling - amount.n < 0
    THEN 0
    ELSE 100 * ceiling - amount.n

\* score is an integer nearest to max(0, 100 - amount/ceiling*100)
IsNearestScore(amount, score, ceiling) ==
    /\ score.kind = "number"
    /\ 2 * (score.n * ceiling - ClampedTimesCeiling(amount, ceiling)) \in -ceiling..ceiling

\* the fraction a is at most the fraction b, as doubles
FracLessEq(a, b) ==
    \/ a.num * b.den < b.num * a.den
    \/ a.num * b.den = b.num * a.den /\ a.ulp <= b.ulp

C2_OverallScoreIsRounded ==
    ReturnedNumericDeal =>
        /\ ret.scores.overall.kind = "number"
        /\ ret.scores.overall.num % ret.scores.overall.den = 0
        /\ ret.scores.overall.num \div ret.scores.overall.den
              = RoundHalfUp(4 * ret.scores.excessive.n + 6 * ret.scores.illegitimate.n, 10)

\* C2 amended: the overall score of gradeDeal is the weighted sum
\* excessiveScore*0.4 + illegitimateScore*0.6 of the two already rounded
\* category scores, left unrounded.
C2_OverallScoreIsWeightedSum ==
    ReturnedNumericDeal =>
        /\ ret.scores.overall.kind = "number"
        /\ 10 * ret.scores.overall.num
              = (4 * ret.scores.excessive.n + 6 * ret.scores.illegitimate.n)
                   * ret.scores.overall.den

\* gradeDeal(10, 0): scores 99 and 100, overall 99.6
C2_Witness ==
    /\ ReturnedNumericDeal
    /\ call.excessiveFees = Num(1000)
    /\ call.illegitimateFees = Num(0)
    /\ ret.scores.excessive = Num(99)
    /\ ret.scores.illegitimate = Num(100)
    /\ ret.scores.overall.num * 10 = 996 * ret.scores.overall.den

\* C3: the overall letter of a deal is A for an overall score >= 90, B for
\* >= 80, C for >= 70, D for >= 60 and F below, so that every overall score
\* has exactly one letter.
C3_OverallLetterBands ==
    ReturnedNumericDeal =>
        LET s == ret.scores.overall
            g == ret.overall.grade
        IN  /\ g \in Letters
            /\ (g = "A") = FracGreaterEq(s, 90)
            /\ (g = "B") = (FracGreaterEq(s, 80) /\ ~FracGreaterEq(s, 90))
            /\ (g = "C") = (FracGreaterEq(s, 70) /\ ~FracGreaterEq(s, 80))
            /\ (g = "D") = (FracGreaterEq(s, 60) /\ ~FracGreaterEq(s, 70))
            /\ (g = "F") = ~FracGreaterEq(s, 60)

\* gradeDeal(100, 200): scores 90 and 90, overall exactly 90, letter A
C3_Witness ==
    /\ ReturnedNumericDeal
    /\ ret.scores.overall.num = 90 * ret.scores.overall.den
    /\ ret.scores.overall.ulp = 0
    /\ ret.overall.grade = "A"

AtOrAbove(amount, ceiling) ==
    amount.kind = "Infinity" \/ (amount.kind = "number" /\ amount.n >= 100 * ceiling)

C6_ScoreMonotone ==
    ReturnedNumericDeal =>
        \A a \in Amounts :
            /\ LessThan(call.excessiveFees, a)
                 => LET r == gradeDeal(GRADING_THRESHOLDS, a, call.illegitimateFees)
                    IN  /\ r.scores.excessive.n <= ret.scores.excessive.n
                        /\ FracLessEq(r.scores.overall, ret.scores.overall)
            /\ LessThan(call.illegitimateFees, a)
                 => LET r == gradeDeal(GRADING_THRESHOLDS, call.excessiveFees, a)
                    IN  /\ r.scores.illegitimate.n <= ret.scores.illegitimate.n
                        /\ FracLessEq(r.scores.overall, ret.scores.overall)

\* gradeDeal(500, 0) returned 50; the larger total 1000 scores strictly less
C6_Witness ==
    /\ ReturnedNumericDeal
    /\ call.excessiveFees = Num(50000)
    /\ ret.scores.excessive = Num(50)
    /\ Num(100000) \in Amounts
    /\ gradeDeal(GRADING_THRESHOLDS, Num(100000), call.illegitimateFees).scores.excessive.n
          < ret.scores.excessive.n

\* C7: for every pair of non-negative amounts gradeDeal returns a result
\* whose three scores lie in [0,100] and whose overall letter is one of
\* A, B, C, D, F.
C7_DealTotalAndBounded ==
    ReturnedNumericDeal =>
        /\ ret.scores.excessive.kind = "number"
        /\ ret.scores.excessive.n \in 0..100
        /\ ret.scores.illegitimate.kind = "number"
        /\ ret.scores.illegitimate.n \in 0..100
        /\ ret.scores.overall.kind = "number"
        /\ ret.scores.overall.num >= 0
        /\ ret.scores.overall.num <= 100 * ret.scores.overall.den
        /\ ret.overall.grade \in Letters

\* a mid-range result: neither score at an end of the range
C7_Witness ==
    /\ ReturnedNumericDeal
    /\ ret.scores.excessive.n \in 1..99
    /\ ret.scores.illegitimate.n \in 1..99
    /\ ret.overall.grade = "C"

\* the currency bands of the descriptive grade, in cents: <<letter, min, max>>
\* with max = -1 for the band that is unbounded above
DescriptiveBands(feeType) ==
    IF feeType = "excessive_fees"
    THEN {<<"A", 0, 45000>>, <<"B", 45000, 55000>>, <<"C", 55000, 124800>>,
          <<"D", 124800, 1276700>>, <<"F", 1276700, -1>>}
    ELSE {<<"A", 0, 45150>>, <<"B", 45150, 123125>>, <<"C", 123125, 267425>>,
          <<"D", 267425, 1903945>>, <<"F", 1903945, -1>>}

\* min <= amount < max
WithinBand(amount, band) ==
    IF amount.kind = "Infinity" THEN band[3] = -1
    ELSE band[2] <= amount.n /\ (band[3] = -1 \/ amount.n < band[3])

\* C8: the descriptive grade of a non-negative amount is the letter of the
\* one currency band with min <= amount < max, and the returned grade
\* carries the input amount unchanged.
C8_DescriptiveBands ==
    /\ (ReturnedGrade /\ IsNumeric(call.amount)) =>
          LET in == {b \in DescriptiveBands(call.feeType) : WithinBand(call.amount, b)}
          IN  /\ Cardinality(in) = 1
              /\ \A b \in in : ret.grade = b[1]
              /\ ret.amount = call.amount
    /\ ReturnedNumericDeal =>
          /\ \A b \in DescriptiveBands("excessive_fees") :
                WithinBand(call.excessiveFees, b) => ret.excessive.grade = b[1]
          /\ \A b \in DescriptiveBands("illegitimate_fees") :
                WithinBand(call.illegitimateFees, b) => ret.illegitimate.grade = b[1]
          /\ ret.excessive.amount = call.excessiveFees
          /\ ret.illegitimate.amount = call.illegitimateFees

\* getGrade(450, excessive_fees): the lower edge of band B belongs to B
C8_Witness ==
    /\ ReturnedGrade
    /\ call.amount = Num(45000)
    /\ call.feeType = "excessive_fees"
    /\ ret.grade = "B"
    /\ ret.amount = Num(45000)

\* C9: gradeDealer with an empty list of deals, or with no deals value,
\* returns the sentinel grade N/A with dealCount 0 and all average scores 0.
C9_NoDealsSentinel ==
    (ReturnedDealer /\ (call.deals.kind = "undefined" \/ Len(call.deals.items) = 0)) =>
        /\ ret.grade = "N/A"
        /\ ret.dealCount = 0
        /\ \A c \in {"excessive", "illegitimate", "overall"} :
              /\ ret.averageScores[c].kind = "number"
              /\ ret.averageScores[c].num = 0

\* gradeDealer([]) has returned
C9_Witness ==
    /\ ReturnedDealer
    /\ call.deals = Arr(<<>>)
    /\ ret.grade = "N/A"
    /\ ret.dealCount = 0

OnlyA == [A |-> 1, B |-> 0, C |-> 0, D |-> 0, F |-> 0]

ReturnedGradedDealer ==
    /\ ReturnedDealer
    /\ call.deals.kind = "array"
    /\ Len(call.deals.items) > 0

\* the deal records of the call that returned
CallItems == call.deals.items

\* gradeDeal of the k-th deal of the call, from the totals the deal carries
\* under the property names gradeDealer reads
DealGradeOf(k) ==
    gradeDeal(THRESHOLDS_INIT, Field(CallItems[k], "excessive_fees"),
                               Field(CallItems[k], "illegitimate_fees"))

\* the fraction avg is the arithmetic mean of the n integers s[1..n]
IsMeanOfInts(avg, s, n) ==
    IF \E k \in 1..n : s[k].kind # "number"
    THEN avg.kind = "NaN"
    ELSE /\ avg.kind = "number"
         /\ avg.num * n = avg.den * SumInt([k \in 1..n |-> s[k].n], 1..n)

\* the fraction avg is the arithmetic mean of the n fractions s[1..n], which
\* share the denominator 10
IsMeanOfTenths(avg, s, n) ==
    IF \E k \in 1..n : s[k].kind # "number"
    THEN avg.kind = "NaN"
    ELSE /\ avg.kind = "number"
         /\ \A k \in 1..n : s[k].den = 10
         /\ avg.num * 10 * n = avg.den * SumInt([k \in 1..n |-> s[k].num], 1..n)

\* C11: for a non-empty deal list the three average scores of gradeDealer
\* are the arithmetic means of the deals' gradeDeal scores, and the dealer
\* letter is the score-band letter of the mean overall score; the dealer
\* with deals (0,0) and (1000,2000) has overall scores 100 and 0, mean 50
\* and letter F.
C11_DealerMeans ==
    ReturnedGradedDealer =>
        LET n == Len(CallItems)
            avg == ret.averageScores
            g == ret.grade
        IN  /\ IsMeanOfInts(avg.excessive, [k \in 1..n |-> DealGradeOf(k).scores.excessive], n)
            /\ IsMeanOfInts(avg.illegitimate, [k \in 1..n |-> DealGradeOf(k).scores.illegitimate], n)
            /\ IsMeanOfTenths(avg.overall, [k \in 1..n |-> DealGradeOf(k).scores.overall], n)
            /\ (g = "A") = FracGreaterEq(avg.overall, 90)
            /\ (g = "B") = (FracGreaterEq(avg.overall, 80) /\ ~FracGreaterEq(avg.overall, 90))
            /\ (g = "C") = (FracGreaterEq(avg.overall, 70) /\ ~FracGreaterEq(avg.overall, 80))
            /\ (g = "D") = (FracGreaterEq(avg.overall, 60) /\ ~FracGreaterEq(avg.overall, 70))
            /\ (g = "F") = ~FracGreaterEq(avg.overall, 60)

\* gradeDealer([{0, 0}, {1000, 2000}]): overall scores 100 and 0, mean 50, F
C11_Witness ==
    /\ ReturnedGradedDealer
    /\ CallItems = <<[excessive_fees |-> Num(0), illegitimate_fees |-> Num(0)],
                     [excessive_fees |-> Num(100000), illegitimate_fees |-> Num(200000)]>>
    /\ ret.dealGrades[1].scores.overall.num = 100 * ret.dealGrades[1].scores.overall.den
    /\ ret.dealGrades[2].scores.overall.num = 0
    /\ ret.averageScores.overall.num = 50 * ret.averageScores.overall.den
    /\ ret.grade = "F"

\* C12: gradeDistribution has exactly the keys A, B, C, D, F; each count is
\* the number of the dealer's deals whose overall letter is that letter; the
\* counts sum to dealCount, which is the number of input deals.
C12_DistributionCounts ==
    ReturnedGradedDealer =>
        LET n == Len(CallItems)
            dist == ret.gradeDistribution
        IN  /\ DOMAIN dist = Letters
            /\ \A L \in Letters :
                  dist[L] = Cardinality({k \in 1..n : DealGradeOf(k).overall.grade = L})
            /\ dist.A + dist.B + dist.C + dist.D + dist.F = ret.dealCount
            /\ ret.dealCount = n

\* two deals with different overall letters: (0,0) is A, (0,2000) is F
C12_Witness ==
    /\ ReturnedGradedDealer
    /\ CallItems = <<[excessive_fees |-> Num(0), illegitimate_fees |-> Num(0)],
                     [excessive_fees |-> Num(0), illegitimate_fees |-> Num(200000)]>>
    /\ ret.gradeDistribution = [A |-> 1, B |-> 0, C |-> 0, D |-> 0, F |-> 1]
    /\ ret.dealCount = 2

FreshResult ==
    CASE call.op = "getGrade" -> getGrade(THRESHOLDS_INIT, call.amount, call.feeType)
      [] call.op = "gradeDeal" ->
            gradeDeal(THRESHOLDS_INIT, call.excessiveFees, call.illegitimateFees)
      [] call.op = "gradeDealer" -> gradeDealer(THRESHOLDS_INIT, call.deals)
      [] OTHER -> NoRet

OrZero(v) == IF v = Undefined THEN Num(0) ELSE v

\* the deals with every absent fee field read as 0
DealsOrZero(deals) ==
    [kind |-> deals.kind,
     items |-> [k \in 1..Len(deals.items) |->
                   [excessive_fees |-> OrZero(Field(deals.items[k], "excessive_fees")),
                    illegitimate_fees |-> OrZero(Field(deals.items[k], "illegitimate_fees"))]]]

\* the scores and the three letters of a gradeDeal result
ScoresAndLetters(g) ==
    <<g.scores, g.excessive.grade, g.illegitimate.grade, g.overall.grade>>

\* C15: an undefined fee total is graded as 0: gradeDeal(undefined, x) has
\* the scores and letters of gradeDeal(0, x), and gradeDealer grades a deal
\* lacking a fee field as if the field were 0
C15_UndefinedGradedAsZero ==
    /\ ReturnedDeal =>
          ScoresAndLetters(ret) =
             ScoresAndLetters(gradeDeal(THRESHOLDS_INIT, OrZero(call.excessiveFees),
                                        OrZero(call.illegitimateFees)))
    /\ ReturnedGradedDealer =>
          LET asZero == gradeDealer(THRESHOLDS_INIT, DealsOrZero(call.deals))
          IN  /\ ret.grade = asZero.grade
              /\ ret.averageScores = asZero.averageScores
              /\ ret.gradeDistribution = asZero.gradeDistribution

\* C16: a fee amount that is not a number makes gradeDeal and gradeDealer
\* produce an InvalidInput error outcome, never an ordinary grade result
C16_NonNumericIsInvalidInput ==
    /\ (ReturnedDeal /\ NotANumber \in {call.excessiveFees, call.illegitimateFees})
          => ("error" \in DOMAIN ret /\ ret.error = "InvalidInput")
    /\ (ReturnedGradedDealer
        /\ \E k \in 1..Len(CallItems) :
              NotANumber \in {Field(CallItems[k], "excessive_fees"),
                              Field(CallItems[k], "illegitimate_fees")})
          => ("error" \in DOMAIN ret /\ ret.error = "InvalidInput")

\* ------------------------------------------------------------------------
\* server.js: GET /api/deal-grading/:dealId
\* ------------------------------------------------------------------------

\* longest fee list in a RISK_ASSESSMENT_UPDATE payload
MaxFees == 2

Null == [kind |-> "null"]

\* the static description of the grading system, holding the two tables
getGradingExplanation(table) ==
    [overview |-> "This grading system is based on analysis of deals currently in the 'analysis' state that have fee data available.",
     excessive_fees |->
        [description |-> "Fees that are higher than typical market rates but may be legitimate",
         thresholds |-> table.excessive_fees,
         weight |-> "40% of overall grade"],
     illegitimate_fees |->
        [description |-> "Fees that are unnecessary, deceptive, or potentially illegal",
         thresholds |-> table.illegitimate_fees,
         weight |-> "60% of overall grade (weighted higher due to severity)"],
     calculation |-> "Overall grade is calculated as a weighted average: (Excessive Score x 0.4) + (Illegitimate Score x 0.6)",
     scoring |-> "Grades are converted to scores: A=95, B=85, C=75, D=65, F=55"]

\* fee.amount || 0: undefined, null, 0 and NaN give 0
AmountOrZero(fee) ==
    LET amount == Field(fee, "amount")
    IN  IF amount.kind = "number" /\ amount.n # 0 THEN amount.n ELSE 0

\* fee.assessment === a
IsAssessed(fee, a) == "assessment" \in DOMAIN fee /\ fee.assessment = a

\* mutation: a fee that is not EXCESSIVE counts as illegitimate
AddFee_ElseIllegitimate(totals, fee) ==
    IF IsAssessed(fee, "EXCESSIVE")
    THEN [totals EXCEPT !.excessiveFees = @ + AmountOrZero(fee)]
    ELSE [totals EXCEPT !.illegitimateFees = @ + AmountOrZero(fee)]

\* the body of payload.fees.forEach
AddFee(totals, fee) ==
    IF IsAssessed(fee, "EXCESSIVE")
    THEN [totals EXCEPT !.excessiveFees = @ + AmountOrZero(fee)]
    ELSE IF IsAssessed(fee, "ILLEGITIMATE")
    THEN [totals EXCEPT !.illegitimateFees = @ + AmountOrZero(fee)]
    ELSE totals

RECURSIVE FeeTotalsFrom(_, _, _)
FeeTotalsFrom(fees, k, totals) ==
    IF k > Len(fees) THEN totals
    ELSE FeeTotalsFrom(fees, k + 1, AddFee(totals, fees[k]))

\* let excessiveFees = 0; let illegitimateFees = 0; payload.fees.forEach(...)
FeeTotals(fees) ==
    FeeTotalsFrom(fees, 1, [excessiveFees |-> 0, illegitimateFees |-> 0])

\* typeof payload === 'string' ? JSON.parse(payload) : payload
\* (a string that is not JSON makes JSON.parse throw)
ParsePayload(payload) ==
    IF payload.kind = "string" /\ ~payload.valid
    THEN [threw |-> TRUE, value |-> Null]
    ELSE [threw |-> FALSE, value |-> payload.value]

\* payload.fees && Array.isArray(payload.fees)
HasFeeList(value) ==
    /\ "fees" \in DOMAIN value
    /\ value.fees.kind = "array"

\* mutation: a payload without a fee array is graded as a deal without fees
DealGradingOf_NoFeesGraded(table, payload) ==
    IF payload.kind = "null" THEN Null
    ELSE LET parsed == ParsePayload(payload)
         IN  IF parsed.threw \/ parsed.value = Null THEN Null
             ELSE LET totals == IF HasFeeList(parsed.value)
                                THEN FeeTotals(parsed.value.fees.items)
                                ELSE [excessiveFees |-> 0, illegitimateFees |-> 0]
                  IN  gradeDeal(table, Num(totals.excessiveFees), Num(totals.illegitimateFees))
                      @@ [explanation |-> getGradingExplanation(table)]

\* the grading object of the response, or null: no payload, a payload that
\* does not parse or parses to null (the TypeError is caught), or one
\* without a fee array
DealGradingOf(table, payload) ==
    IF payload.kind = "null" THEN Null
    ELSE LET parsed == ParsePayload(payload)
         IN  IF parsed.threw \/ parsed.value = Null THEN Null
             ELSE IF ~HasFeeList(parsed.value) THEN Null
             ELSE LET totals == FeeTotals(parsed.value.fees.items)
                  IN  gradeDeal(table, Num(totals.excessiveFees), Num(totals.illegitimateFees))
                      @@ [explanation |-> getGradingExplanation(table)]

\* the response of the handler for a database that is up or down and the
\* rows its query returns
DealGradingResponse(table, dealId, db) ==
    IF ~db.up
    THEN [status |-> 503,
          body |-> [error |-> "Database connection failed",
                    message |-> "Please ensure you are connected to the VPN and try again"]]
    ELSE IF Len(db.rows) = 0
    THEN [status |-> 404, body |-> [error |-> "Deal not found"]]
    ELSE LET deal == db.rows[1]
             grading == DealGradingOf(table, deal.payload)
         IN  [status |-> 200,
              body |-> [deal_id |-> dealId,
                        state |-> deal.state,
                        grading |-> grading,
                        has_grading |-> grading # Null]]

\* the table after the handler: gradeDeal is called when there is a fee list
TableAfterDealGrading(table, db) ==
    IF db.up /\ Len(db.rows) > 0 /\ DealGradingOf(table, db.rows[1].payload) # Null
    THEN LET totals == FeeTotals(ParsePayload(db.rows[1].payload).value.fees.items)
         IN  TableAfterGradeDeal(table, Num(totals.excessiveFees), Num(totals.illegitimateFees))
    ELSE table

\* fees of a payload: the three assessments the analysis produces and one
\* it does not, with an amount, a zero amount, or none; and a fee carrying
\* only a label
Assessments == {"NORMAL", "EXCESSIVE", "ILLEGITIMATE", "UNKNOWN"}

FeeAmounts == {Num(0), Num(30000), Num(50000)}

ServerFees ==
    {[assessment |-> a, amount |-> m] : a \in Assessments, m \in FeeAmounts}
    \cup {[assessment |-> a] : a \in Assessments}
    \cup {[label |-> "Doc Fee"]}

FeeLists == UNION {[1..n -> ServerFees] : n \in 0..MaxFees}

\* what dt.payload can hold: null (no task row), text that is not JSON,
\* the text "null", and an object (or its JSON text) with no fees, with
\* fees that is not an array, or with a fee array
PayloadValues ==
    {[vehicle |-> "sedan"], [fees |-> [kind |-> "object", items |-> <<>>]]}
    \cup {[fees |-> [kind |-> "array", items |-> l]] : l \in FeeLists}

Payloads ==
    {Null,
     [kind |-> "string", valid |-> FALSE, value |-> Null],
     [kind |-> "string", valid |-> TRUE, value |-> Null]}
    \cup {[kind |-> k, valid |-> TRUE, value |-> v] : k \in {"object", "string"}, v \in PayloadValues}

DealIds == {7}

\* the database as one request finds it: unreachable, without an active
\* deal of that id, or with it
DealGradingDbs(dealId) ==
    {[up |-> FALSE, rows |-> <<>>], [up |-> TRUE, rows |-> <<>>]}
    \cup {[up |-> TRUE, rows |-> <<[deal_id |-> dealId, state |-> "analysis", payload |-> p]>>] :
            p \in Payloads}

GetDealGrading ==
    /\ pc = "idle"
    /\ \E dealId \in DealIds :
          \E db \in DealGradingDbs(dealId) :
             /\ call' = [op |-> "GET /api/deal-grading/:dealId", dealId |-> dealId, db |-> db]
             /\ ret' = DealGradingResponse(GRADING_THRESHOLDS, dealId, db)
             /\ GRADING_THRESHOLDS' = TableAfterDealGrading(GRADING_THRESHOLDS, db)
    /\ pc' = "returned"
    /\ UNCHANGED <<callerDeals, called, smartMCPClient>>


\* the deal-grading handler has answered with a grading
ReturnedDealGrading ==
    /\ pc = "returned"
    /\ call.op = "GET /api/deal-grading/:dealId"
    /\ ret.status = 200
    /\ ret.body.has_grading

\* the fee list of the payload of the request that was answered
CallFees == ParsePayload(call.db.rows[1].payload).value.fees.items

\* the sum of the amounts of the fees assessed a, a fee without an amount
\* counting 0 (cents)
TotalAssessed(fees, a) ==
    SumInt([k \in 1..Len(fees) |->
               IF /\ "assessment" \in DOMAIN fees[k]
                  /\ fees[k].assessment = a
                  /\ "amount" \in DOMAIN fees[k]
               THEN fees[k].amount.n ELSE 0],
           1..Len(fees))

\* ------------------------------------------------------------------------
\* server.js: GET /api/dealership-rankings
\* ------------------------------------------------------------------------

\* most rows the rankings query returns
MaxRows == 4

\* x || 0 on an average: NaN gives 0
FracOrZero(x) == IF x.kind = "number" THEN x ELSE Frac(0, 1, 0)

\* the sign of x - y for fractions
FracDiffSign(x, y) ==
    LET d == x.num * y.den - y.num * x.den
    IN  IF d > 0 THEN 1 ELSE IF d < 0 THEN -1 ELSE 0

\* Math.abs(x - y) > p/q for fractions
FracApart(x, y, p, q) ==
    LET d == x.num * y.den - y.num * x.den
        a == IF d < 0 THEN 0 - d ELSE d
    IN  q * a > p * x.den * y.den

\* (averageFees.excessive || 0) * 0.4 + (averageFees.illegitimate || 0) * 0.6
\* in cents
WeightedFees(grading) ==
    LET e == FracOrZero(grading.averageFees.excessive)
        i == FracOrZero(grading.averageFees.illegitimate)
    IN  Frac(4 * e.num * i.den + 6 * i.num * e.den, 10 * e.den * i.den, 0)

\* the sign of the sort comparator: score (highest first) when the scores
\* are more than 0.1 apart, else weighted fees, illegitimate fees (each
\* when more than $0.01 apart), then excessive fees, lowest first
RankCompare(a, b) ==
    LET aScore == FracOrZero(a.grading.averageScores.overall)
        bScore == FracOrZero(b.grading.averageScores.overall)
        aWeightedFees == WeightedFees(a.grading)
        bWeightedFees == WeightedFees(b.grading)
        aIllegitimate == FracOrZero(a.grading.averageFees.illegitimate)
        bIllegitimate == FracOrZero(b.grading.averageFees.illegitimate)
        aExcessive == FracOrZero(a.grading.averageFees.excessive)
        bExcessive == FracOrZero(b.grading.averageFees.excessive)
    IN  IF FracApart(aScore, bScore, 1, 10) THEN FracDiffSign(bScore, aScore)
        ELSE IF FracApart(aWeightedFees, bWeightedFees, 1, 1)
        THEN FracDiffSign(aWeightedFees, bWeightedFees)
        ELSE IF FracApart(aIllegitimate, bIllegitimate, 1, 1)
        THEN FracDiffSign(aIllegitimate, bIllegitimate)
        ELSE FracDiffSign(aExcessive, bExcessive)

\* Array.prototype.sort as V8 runs it on an array shorter than 32 (the
\* server uses optional chaining, so its V8 sorts with TimSort): the
\* leading run is counted, reversed if strictly descending, and the rest
\* is inserted by binary search.

\* whether the element at idx continues the leading run
ContinuesRun(arr, idx, isDescending) ==
    IF isDescending
    THEN RankCompare(arr[idx], arr[idx - 1]) < 0
    ELSE RankCompare(arr[idx], arr[idx - 1]) >= 0

\* CountAndMakeRun on an array of at least two elements
CountAndMakeRun(arr) ==
    LET n == Len(arr)
        isDescending == RankCompare(arr[2], arr[1]) < 0
        runLength == CHOOSE r \in 2..n :
                        /\ \A idx \in 3..r : ContinuesRun(arr, idx, isDescending)
                        /\ r = n \/ ~ContinuesRun(arr, r + 1, isDescending)
    IN  [runLength |-> runLength,
         workArray |-> IF isDescending
                       THEN [k \in 1..n |-> IF k <= runLength THEN arr[runLength + 1 - k]
                                            ELSE arr[k]]
                       ELSE arr]

RECURSIVE BinarySearch(_, _, _, _)
\* the position of pivot among arr[left .. right - 1]
BinarySearch(arr, pivot, left, right) ==
    IF left >= right THEN left
    ELSE LET mid == left + ((right - left) \div 2)
         IN  IF RankCompare(pivot, arr[mid]) < 0
             THEN BinarySearch(arr, pivot, left, mid)
             ELSE BinarySearch(arr, pivot, mid + 1, right)

RECURSIVE BinaryInsertionSort(_, _)
\* arr[1 .. start - 1] is sorted; insert arr[start], arr[start + 1], ...
BinaryInsertionSort(arr, start) ==
    IF start > Len(arr) THEN arr
    ELSE LET pivot == arr[start]
             left == BinarySearch(arr, pivot, 1, start)
             moved == [k \in 1..Len(arr) |->
                          IF k < left \/ k > start THEN arr[k]
                          ELSE IF k = left THEN pivot
                          ELSE arr[k - 1]]
         IN  BinaryInsertionSort(moved, start + 1)

ArraySort(arr) ==
    IF Len(arr) < 2 THEN arr
    ELSE LET run == CountAndMakeRun(arr)
         IN  BinaryInsertionSort(run.workArray, run.runLength + 1)

\* a text column that is NULL (or empty: both are falsy)
NoText == ""

\* row.dealer_name || 'Unknown Dealer'
DealerKey(row) == IF row.dealer_name = NoText THEN "Unknown Dealer" ELSE row.dealer_name

\* `${row.city || ''}, ${row.state_code || ''}`
LocationOf(row) ==
    <<IF row.city = NoText THEN "" ELSE row.city, ", ",
      IF row.state_code = NoText THEN "" ELSE row.state_code>>

\* whether the row adds a deal: it has a payload that parses to an object
\* with a fee array (a throw is caught and the row is skipped)
RowHasFees(row) ==
    /\ row.payload.kind # "null"
    /\ ~ParsePayload(row.payload).threw
    /\ ParsePayload(row.payload).value # Null
    /\ HasFeeList(ParsePayload(row.payload).value)

\* the deal record pushed for a row
DealOfRow(row) ==
    LET totals == FeeTotals(ParsePayload(row.payload).value.fees.items)
    IN  [deal_id |-> row.deal_id,
         excessive_fees |-> Num(totals.excessiveFees),
         illegitimate_fees |-> Num(totals.illegitimateFees)]

\* dealerDeals after the row's deal is pushed: the values of the object
\* in the order its keys were first set
PushDeal(dealers, row) ==
    LET key == DealerKey(row)
    IN  IF \E k \in 1..Len(dealers) : dealers[k].dealer_name = key
        THEN [k \in 1..Len(dealers) |->
                 IF dealers[k].dealer_name = key
                 THEN [dealers[k] EXCEPT !.deals = Append(@, DealOfRow(row))]
                 ELSE dealers[k]]
        ELSE Append(dealers, [dealer_name |-> key,
                              location |-> LocationOf(row),
                              deals |-> <<DealOfRow(row)>>])

RECURSIVE GroupRows_NoDedupe(_, _, _, _)
\* mutation: a row is processed even when its deal id was seen before
GroupRows_NoDedupe(rows, k, processedDeals, dealers) ==
    IF k > Len(rows) THEN dealers
    ELSE GroupRows_NoDedupe(rows, k + 1, processedDeals \cup {rows[k].deal_id},
                            IF RowHasFees(rows[k]) THEN PushDeal(dealers, rows[k])
                            ELSE dealers)

RECURSIVE GroupRows(_, _, _, _)
\* dealsResult.rows.forEach from row k on, with the deal ids seen so far
GroupRows(rows, k, processedDeals, dealers) ==
    IF k > Len(rows) THEN dealers
    ELSE IF rows[k].deal_id \in processedDeals
    THEN GroupRows(rows, k + 1, processedDeals, dealers)
    ELSE GroupRows(rows, k + 1, processedDeals \cup {rows[k].deal_id},
                   IF RowHasFees(rows[k]) THEN PushDeal(dealers, rows[k]) ELSE dealers)

\* Object.values(dealerDeals).map(...).filter(...).sort(...)
Rankings(table, rows) ==
    LET dealers == GroupRows(rows, 1, {}, <<>>)
        graded == [k \in 1..Len(dealers) |->
                      dealers[k] @@ [grading |-> gradeDealer(table, Arr(dealers[k].deals))]]
        kept == SelectSeq(graded, LAMBDA dealer : dealer.grading.dealCount > 0)
    IN  ArraySort(kept)

RankingsResponse(table, db) ==
    IF ~db.up
    THEN [status |-> 503,
          body |-> [error |-> "Database connection failed",
                    message |-> "Please ensure you are connected to the VPN and try again"]]
    ELSE LET rankings == Rankings(table, db.rows)
         IN  [status |-> 200,
              body |-> [rankings |-> rankings,
                        total_dealers |-> Len(rankings),
                        explanation |-> getGradingExplanation(table)]]

RECURSIVE TableAfterDealers(_, _, _)
\* the table after gradeDealer has run for the dealers from position k on
TableAfterDealers(table, dealers, k) ==
    IF k > Len(dealers) THEN table
    ELSE TableAfterDealers(TableAfterGradeDealer(table, Arr(dealers[k].deals)),
                           dealers, k + 1)

TableAfterRankings(table, db) ==
    IF db.up THEN TableAfterDealers(table, GroupRows(db.rows, 1, {}, <<>>), 1)
    ELSE table

\* two payloads: excessive $990 and illegitimate $2000 (scores 1 and 0,
\* overall 0.4); excessive $5000 and illegitimate $1980 (scores 0 and 1,
\* overall 0.6)
LowPayload ==
    [kind |-> "object", valid |-> TRUE,
     value |-> [fees |-> [kind |-> "array",
                          items |-> <<[assessment |-> "EXCESSIVE", amount |-> Num(99000)],
                                      [assessment |-> "ILLEGITIMATE", amount |-> Num(200000)]>>]]]

HighPayload ==
    [kind |-> "string", valid |-> TRUE,
     value |-> [fees |-> [kind |-> "array",
                          items |-> <<[assessment |-> "EXCESSIVE", amount |-> Num(500000)],
                                      [assessment |-> "ILLEGITIMATE", amount |-> Num(198000)],
                                      [assessment |-> "NORMAL", amount |-> Num(8500)]>>]]]

\* what a row of the query can be, apart from its deal id: a deal of
\* Charlie Cars with the first payload, of Alpha Motors with the second or
\* with none, of no dealer (dl.name is NULL) with either, and a second row
\* of the deal of the row before it (SELECT DISTINCT keeps rows that
\* differ in another column)
RowKinds ==
    {[dealer_name |-> "Charlie Cars", city |-> "Austin", state_code |-> "TX",
      payload |-> LowPayload, again |-> FALSE],
     [dealer_name |-> NoText, city |-> NoText, state_code |-> NoText,
      payload |-> LowPayload, again |-> FALSE],
     [dealer_name |-> NoText, city |-> NoText, state_code |-> NoText,
      payload |-> HighPayload, again |-> FALSE],
     [dealer_name |-> "Alpha Motors", city |-> "Dallas", state_code |-> "TX",
      payload |-> HighPayload, again |-> FALSE],
     [dealer_name |-> "Alpha Motors", city |-> "Dallas", state_code |-> "TX",
      payload |-> Null, again |-> FALSE],
     [dealer_name |-> "Charlie Cars", city |-> "Austin", state_code |-> "TX",
      payload |-> HighPayload, again |-> TRUE]}

\* ORDER BY d.id: deal ids rise along the rows, a repeated row keeping
\* the id of the row before it
RowsOf(kinds) ==
    [k \in 1..Len(kinds) |->
        [deal_id |-> Cardinality({j \in 1..k : j = 1 \/ ~kinds[j].again}),
         state |-> "analysis",
         dealer_name |-> kinds[k].dealer_name,
         city |-> kinds[k].city,
         state_code |-> kinds[k].state_code,
         payload |-> kinds[k].payload]]

RankingsDbs ==
    {[up |-> FALSE, rows |-> <<>>]}
    \cup {[up |-> TRUE, rows |-> RowsOf(kinds)] :
            kinds \in UNION {[1..n -> RowKinds] : n \in 0..MaxRows}}

GetDealershipRankings ==
    /\ pc = "idle"
    /\ \E db \in RankingsDbs :
          /\ call' = [op |-> "GET /api/dealership-rankings", db |-> db]
          /\ ret' = RankingsResponse(GRADING_THRESHOLDS, db)
          /\ GRADING_THRESHOLDS' = TableAfterRankings(GRADING_THRESHOLDS, db)
    /\ pc' = "returned"
    /\ UNCHANGED <<callerDeals, called, smartMCPClient>>

NextServer == GetDealGrading \/ GetDealershipRankings \/ Return

SpecServer == Init /\ [][NextServer]_vars

\* the rankings handler has answered with a list of dealers
ReturnedRankings ==
    /\ pc = "returned"
    /\ call.op = "GET /api/dealership-rankings"
    /\ ret.status = 200

\* the first row of the answered rankings query that carries the deal id
FirstRowOf(id) ==
    LET rows == call.db.rows
        k == CHOOSE x \in 1..Len(rows) :
                /\ rows[x].deal_id = id
                /\ \A j \in 1..(x - 1) : rows[j].deal_id # id
    IN  rows[k]

\* the fee list of a row's payload
RowFees(row) == ParsePayload(row.payload).value.fees.items

\* C17: the totals graded for a deal are recomputed from its fee list: the
\* excessive total is the sum of the amounts of the EXCESSIVE fees, the
\* illegitimate total that of the ILLEGITIMATE fees; other fees count for
\* neither and a missing amount counts 0
C17_FeeSummary ==
    /\ ReturnedDealGrading =>
          /\ ret.body.grading.excessive.amount = Num(TotalAssessed(CallFees, "EXCESSIVE"))
          /\ ret.body.grading.illegitimate.amount = Num(TotalAssessed(CallFees, "ILLEGITIMATE"))
    /\ ReturnedRankings =>
          \A r \in 1..Len(ret.body.rankings) :
             \A d \in 1..Len(ret.body.rankings[r].deals) :
                LET deal == ret.body.rankings[r].deals[d]
                    fees == RowFees(FirstRowOf(deal.deal_id))
                IN  /\ deal.excessive_fees = Num(TotalAssessed(fees, "EXCESSIVE"))
                    /\ deal.illegitimate_fees = Num(TotalAssessed(fees, "ILLEGITIMATE"))

\* a graded deal with an excessive fee, a normal fee with an amount, and
\* nothing illegitimate
C17_Witness ==
    /\ ReturnedDealGrading
    /\ Len(CallFees) = 2
    /\ CallFees[1] = [assessment |-> "EXCESSIVE", amount |-> Num(30000)]
    /\ CallFees[2] = [assessment |-> "NORMAL", amount |-> Num(50000)]
    /\ ret.body.grading.excessive.amount = Num(30000)
    /\ ret.body.grading.illegitimate.amount = Num(0)

\* C20: in the rankings response a dealer whose average overall score
\* exceeds another's by more than 0.1 comes before it
C20_BestScoreFirst ==
    ReturnedRankings =>
        \A i, j \in 1..Len(ret.body.rankings) :
            LET x == ret.body.rankings[i].grading.averageScores.overall
                y == ret.body.rankings[j].grading.averageScores.overall
            IN  (FracDiffSign(x, y) = 1 /\ FracApart(x, y, 1, 10)) => i < j

\* ------------------------------------------------------------------------
\* JSON: res.json(...) on the server, response.json() in the client
\* ------------------------------------------------------------------------

\* a property after JSON.stringify and JSON.parse: a finite number comes
\* back as the same double and a string as the same string; NaN and
\* Infinity are written as null; an undefined property is left out and
\* reads back as undefined
JsonProperty(v) ==
    IF v.kind \in {"number", "string", "undefined"} THEN v ELSE Null

JsonRoundTripDeal(g) ==
    [g EXCEPT !.excessive.amount = JsonProperty(@),
              !.illegitimate.amount = JsonProperty(@),
              !.scores.excessive = JsonProperty(@),
              !.scores.illegitimate = JsonProperty(@),
              !.scores.overall = JsonProperty(@)]

JsonRoundTripDealer(r) ==
    IF "dealGrades" \in DOMAIN r
    THEN [r EXCEPT !.averageScores.excessive = JsonProperty(@),
                   !.averageScores.illegitimate = JsonProperty(@),
                   !.averageScores.overall = JsonProperty(@),
                   !.averageFees.excessive = JsonProperty(@),
                   !.averageFees.illegitimate = JsonProperty(@),
                   !.dealGrades = [k \in 1..Len(@) |-> JsonRoundTripDeal(@[k])]]
    ELSE [r EXCEPT !.averageScores.excessive = JsonProperty(@),
                   !.averageScores.illegitimate = JsonProperty(@),
                   !.averageScores.overall = JsonProperty(@)]

\* a fee total the grader is meant to accept: a finite non-negative
\* number, or none
AcceptedTotal(v) == v.kind \in {"number", "undefined"}

\* C18: a gradeDeal or gradeDealer result written to JSON and parsed back
\* has every numeric field unchanged, for every accepted input
C18_JsonRoundTrip ==
    /\ (ReturnedDeal /\ AcceptedTotal(call.excessiveFees) /\ AcceptedTotal(call.illegitimateFees))
          => JsonRoundTripDeal(ret) = ret
    /\ (ReturnedDealer
        /\ \A k \in 1..Len(CallItems) :
              /\ AcceptedTotal(Field(CallItems[k], "excessive_fees"))
              /\ AcceptedTotal(Field(CallItems[k], "illegitimate_fees")))
          => JsonRoundTripDealer(ret) = ret

\* the deal ids in the deal lists of the ranked dealers, one entry for
\* each position
RankedDealPositions ==
    UNION {{<<r, d>> : d \in 1..Len(ret.body.rankings[r].deals)} :
              r \in 1..Len(ret.body.rankings)}

\* C21: in the rankings a deal id has at most one entry across all the
\* dealers' deal lists, however many rows the query returned for it; every
\* ranked dealer has dealCount >= 1; total_dealers is the number of ranked
\* dealers
C21_OneEntryPerDeal ==
    ReturnedRankings =>
        /\ \A p, q \in RankedDealPositions :
              ret.body.rankings[p[1]].deals[p[2]].deal_id
                 = ret.body.rankings[q[1]].deals[q[2]].deal_id => p = q
        /\ \A r \in 1..Len(ret.body.rankings) :
              /\ ret.body.rankings[r].grading.dealCount >= 1
              /\ ret.body.rankings[r].grading.dealCount = Len(ret.body.rankings[r].deals)
        /\ ret.body.total_dealers = Len(ret.body.rankings)

\* the query returned two rows for one deal and a dealer was ranked
C21_Witness ==
    /\ ReturnedRankings
    /\ \E j, k \in 1..Len(call.db.rows) :
          /\ j < k
          /\ call.db.rows[j].deal_id = call.db.rows[k].deal_id
          /\ RowHasFees(call.db.rows[j])
          /\ RowHasFees(call.db.rows[k])
    /\ ret.body.total_dealers >= 1
    /\ Cardinality(RankedDealPositions) < Len(call.db.rows)

\* the deal-grading handler has answered
ReturnedDealGradingAny ==
    /\ pc = "returned"
    /\ call.op = "GET /api/deal-grading/:dealId"

\* the payload is present, parses, and holds a fees array
PayloadHasFeesArray(payload) ==
    /\ payload.kind \in {"object", "string"}
    /\ payload.valid
    /\ payload.value # Null
    /\ "fees" \in DOMAIN payload.value
    /\ payload.value.fees.kind = "array"

MaxMessages == 2

\* a double holding a dollar amount: n is the decimal amount in cents and
\* ulps is how many units in the last place the double lies above the
\* double nearest to that amount
Dbl(c) == [kind |-> "number", n |-> c, ulps |-> 0]

DblNaN == [kind |-> "NaN", n |-> 0, ulps |-> 0]

\* a + b; over the explored amounts every sum is the double nearest to
\* the decimal sum
DblAdd(a, b) ==
    IF a.kind = "number" /\ b.kind = "number" THEN Dbl(a.n + b.n) ELSE DblNaN

\* the deviation of currentBottomLinePrice - fairBottomLinePrice, measured
\* on IEEE-754 doubles: the current price carries the rounding of the
\* $149.99 fees at its own magnitude, which the small difference exposes
\* (26149.99 - 26100 is 49.9900000000016, 225 ulps above 49.99)
DoubleDifferenceUlps(current, difference) ==
    LET small == current < 204800
        binade14 == current >= 1638400 /\ current < 3276800
        binade15 == current >= 3276800 /\ current < 6553600
    IN  CASE difference = 4999 /\ small -> 1
          [] difference = 4999 /\ binade14 -> 225
          [] difference = 19998 /\ small -> 1
          [] difference = 19998 /\ binade14 -> 0 - 15
          [] difference = 34997 /\ binade14 -> 20
          [] difference = 14999 /\ binade15 -> 0 - 72
          [] difference = 29998 /\ binade15 -> 56
          [] difference = 44997 /\ binade15 -> 20
          [] OTHER -> 0

\* a - b for the current and the fair price
DblDifference(a, b) ==
    IF a.kind = "number" /\ b.kind = "number"
    THEN [kind |-> "number", n |-> a.n - b.n,
          ulps |-> DoubleDifferenceUlps(a.n, a.n - b.n)]
    ELSE DblNaN

\* fee.amount as read by += : undefined makes the sum NaN
AmountOf(fee) == IF "amount" \in DOMAIN fee THEN Dbl(fee.amount) ELSE DblNaN

\* the body of fees.forEach: totalFees and the sum of the fee's assessment
AddDetailFee(sums, fee) ==
    LET amount == AmountOf(fee)
        total == [sums EXCEPT !.totalFees = DblAdd(@, amount)]
    IN  IF IsAssessed(fee, "NORMAL")
        THEN [total EXCEPT !.normalFees = DblAdd(@, amount)]
        ELSE IF IsAssessed(fee, "EXCESSIVE")
        THEN [total EXCEPT !.excessiveFees = DblAdd(@, amount)]
        ELSE IF IsAssessed(fee, "ILLEGITIMATE")
        THEN [total EXCEPT !.illegitimateFees = DblAdd(@, amount)]
        ELSE total

RECURSIVE DetailFeeSumsFrom(_, _, _)
DetailFeeSumsFrom(fees, k, sums) ==
    IF k > Len(fees) THEN sums
    ELSE DetailFeeSumsFrom(fees, k + 1, AddDetailFee(sums, fees[k]))

\* the four sums, 0 when fees is not an array
DetailFeeSums(fees) ==
    LET zero == [normalFees |-> Dbl(0), excessiveFees |-> Dbl(0),
                 illegitimateFees |-> Dbl(0), totalFees |-> Dbl(0)]
    IN  IF fees.kind = "array" THEN DetailFeeSumsFrom(fees.items, 1, zero) ELSE zero

\* content.match(/Label:\s*([\d,]+\.?\d*)/) and parseFloat of the capture
\* without its commas, for the text that follows the label: -1 when the
\* pattern does not match
ParseMoney(text) ==
    CASE text = "24,500.00" -> 2450000
      [] text = "27,000.00" -> 2700000
      [] text = "1,200.25" -> 120025
      [] OTHER -> -1

\* one message of the first loop: an adjusted price replaces the offer
\* price, a balance is taken while none is held, a tax while tax is 0
ScanMessage(found, msg) ==
    LET adjusted == ParseMoney(msg.adjustedPrice)
        balance == ParseMoney(msg.balance)
        tax == ParseMoney(msg.tax)
    IN  [offerPrice |-> IF adjusted >= 0 THEN Dbl(adjusted) ELSE found.offerPrice,
         currentBottomLinePrice |->
            IF balance >= 0 /\ found.currentBottomLinePrice = Dbl(0)
            THEN Dbl(balance) ELSE found.currentBottomLinePrice,
         tax |-> IF tax >= 0 /\ found.tax = Dbl(0) THEN Dbl(tax) ELSE found.tax]

\* one message of the second loop: every balance replaces the one held
ScanMessageOfSummary(found, msg) ==
    LET adjusted == ParseMoney(msg.adjustedPrice)
        balance == ParseMoney(msg.balance)
        tax == ParseMoney(msg.tax)
    IN  [offerPrice |-> IF adjusted >= 0 THEN Dbl(adjusted) ELSE found.offerPrice,
         currentBottomLinePrice |->
            IF balance >= 0 THEN Dbl(balance) ELSE found.currentBottomLinePrice,
         tax |-> IF tax >= 0 /\ found.tax = Dbl(0) THEN Dbl(tax) ELSE found.tax]

RECURSIVE ScanConversation(_, _, _, _)
\* for (const msg of conversation), from message k on
ScanConversation(conversation, k, found, fromSummary) ==
    IF k > Len(conversation) THEN found
    ELSE ScanConversation(conversation, k + 1,
                          IF fromSummary THEN ScanMessageOfSummary(found, conversation[k])
                          ELSE ScanMessage(found, conversation[k]),
                          fromSummary)

DblUndefined == [kind |-> "undefined", n |-> 0, ulps |-> 0]

\* x || 0 for a price of the summary
DblOrZero(x) == IF x.kind = "number" /\ x.n # 0 THEN x ELSE Dbl(0)

\* Math.round(offerPrice * 1.05), in cents
MarkedUp(offerPrice) == ((offerPrice.n * 105 * 2 + 10000) \div 20000) * 100

\* (adInfo && adInfo.price) ? adInfo.price : Math.round(offerPrice * 1.05)
InternetPrice(adInfo, offerPrice) ==
    IF adInfo.kind = "row" /\ adInfo.price.kind = "number" /\ adInfo.price.n # 0
    THEN adInfo.price
    ELSE Dbl(MarkedUp(offerPrice))

\* a current price that stays the one held whenever one is held
CurrentBottomLinePrice_KeepsHeld(held, basePrice, tax, totalFees) ==
    IF held = Dbl(0) THEN DblAdd(DblAdd(basePrice, tax), totalFees) ELSE held

\* currentBottomLinePrice = basePrice + tax + totalFees, whatever was held
CurrentBottomLinePrice(held, basePrice, tax, totalFees) ==
    DblAdd(DblAdd(basePrice, tax), totalFees)

\* currentBottomLinePrice - illegitimateFees, and 100 more on a current
\* price under 50000; over the explored amounts the result is the double
\* nearest to the decimal value
FairBottomLinePrice(current, illegitimateFees) ==
    LET fair == DblAdd(current, [illegitimateFees EXCEPT !.n = 0 - @])
    IN  IF current.kind = "number" /\ current.n < 5000000
        THEN DblAdd(fair, Dbl(10000)) ELSE fair

\* the prices of the risk analysis computed from a summary (the payload of
\* a RISK_ASSESSMENT_UPDATE task, or meta.deal_risk_summary of an
\* INVOKE_DEAL_ACTION task when fromSummary), the conversation that was
\* found (undefined when none was) and the ad_info row
RiskAnalysisOf(summary, conversation, adInfo, fromSummary) ==
    LET sums == DetailFeeSums(summary.fees)
        given == [offerPrice |-> DblOrZero(summary.offer_price),
                  currentBottomLinePrice |-> Dbl(0),
                  tax |-> DblOrZero(summary.tax)]
        found == IF given.offerPrice = Dbl(0) /\ conversation.kind = "array"
                 THEN ScanConversation(conversation.items, 1, given, fromSummary)
                 ELSE given
        held == IF fromSummary /\ found.currentBottomLinePrice = Dbl(0)
                THEN DblAdd(DblAdd(found.offerPrice, found.tax), sums.totalFees)
                ELSE found.currentBottomLinePrice
        internetPrice == InternetPrice(adInfo, found.offerPrice)
        basePrice == IF found.offerPrice.n > 0 THEN found.offerPrice ELSE internetPrice
        current == CurrentBottomLinePrice(held, basePrice, found.tax, sums.totalFees)
        fair == FairBottomLinePrice(current, sums.illegitimateFees)
        shared == [tax |-> found.tax,
                   fees |-> summary.fees,
                   offer_price |-> found.offerPrice,
                   bottom_line_price |-> current,
                   internet_price |-> internetPrice,
                   quoted_tax |-> found.tax,
                   normal_fees |-> sums.normalFees,
                   excessive_fees |-> sums.excessiveFees,
                   illegitimate_fees |-> sums.illegitimateFees,
                   current_bottom_line_price |-> current,
                   fair_bottom_line_price |-> fair,
                   bottom_line_price_difference |-> DblDifference(current, fair),
                   fee_breakdown |-> [normal |-> sums.normalFees,
                                      excessive |-> sums.excessiveFees,
                                      illegitimate |-> sums.illegitimateFees,
                                      total |-> sums.totalFees]]
    IN  IF fromSummary THEN shared
        ELSE [f \in DOMAIN shared \cup {"total_fees"} |->
                IF f = "total_fees" THEN sums.totalFees ELSE shared[f]]

\* fee.label.toLowerCase().replace(/\s+/g, '_')
PricingKey(label) ==
    CASE label = "Doc Fee" -> "doc_fee"
      [] label = "Nitrogen  Fill" -> "nitrogen_fill"
      [] label = "Market Adjustment" -> "market_adjustment"
      [] OTHER -> label

RECURSIVE PricingFrom(_, _, _)
\* riskAnalysis.fees.forEach: a later fee of the same key replaces the entry
PricingFrom(fees, k, pricing) ==
    IF k > Len(fees) THEN pricing
    ELSE LET key == PricingKey(fees[k].label)
             amount == IF "amount" \in DOMAIN fees[k] THEN Dbl(fees[k].amount)
                       ELSE DblUndefined
         IN  PricingFrom(fees, k + 1,
                         [f \in DOMAIN pricing \cup {key} |->
                            IF f = key THEN amount ELSE pricing[f]])

\* pricing, set by the task loop once a risk analysis exists
PricingOf(riskAnalysis) ==
    LET base == [total_price |-> riskAnalysis.bottom_line_price,
                 offer_price |-> riskAnalysis.offer_price,
                 tax |-> riskAnalysis.tax]
    IN  IF riskAnalysis.fees.kind = "array"
        THEN PricingFrom(riskAnalysis.fees.items, 1, base)
        ELSE base

\* tasks.find(t => INVOKE_DEAL_ACTION && t.meta && t.meta.request &&
\* t.meta.request.conversation), and its conversation
ConversationOf(invoke) ==
    IF invoke.kind = "task" THEN invoke.conversation ELSE [kind |-> "undefined"]

\* the risk analysis of the response: from the payload of the
\* RISK_ASSESSMENT_UPDATE task when it has one that parses, otherwise from
\* the deal_risk_summary of the INVOKE_DEAL_ACTION task, otherwise null
RiskAnalysisOfTasks(tasks, adInfo) ==
    IF tasks.risk.kind = "object"
    THEN RiskAnalysisOf(tasks.risk, ConversationOf(tasks.invoke), adInfo, FALSE)
    ELSE IF tasks.invoke.kind = "task" /\ tasks.invoke.deal_risk_summary.kind = "object"
    THEN RiskAnalysisOf(tasks.invoke.deal_risk_summary, tasks.invoke.conversation,
                        adInfo, TRUE)
    ELSE Null

\* the handler of GET /api/deal-details/:dealId, as far as ad_info,
\* risk_analysis and pricing go; deal, dealer, vehicle, tasks, conversation
\* and goals are assembled from other queries and read none of these
DealDetailsResponse(dealId, db) ==
    IF ~db.up
    THEN [status |-> 503, body |-> [error |-> "Database connection failed"]]
    ELSE IF ~db.deal
    THEN [status |-> 404, body |-> [error |-> "Deal not found"]]
    ELSE [status |-> 200,
          body |-> [ad_info |-> db.adInfo,
                    risk_analysis |-> RiskAnalysisOfTasks(db.tasks, db.adInfo),
                    pricing |-> IF db.tasks.risk.kind = "object"
                                THEN PricingOf(RiskAnalysisOfTasks(db.tasks, db.adInfo))
                                ELSE Null]]

\* fees of a summary: a normal fee, an illegitimate fee whose amount is no
\* multiple of a quarter, and a fee that carries no amount
DetailFees ==
    {[label |-> "Doc Fee", assessment |-> "NORMAL", amount |-> 8500],
     [label |-> "Market Adjustment", assessment |-> "ILLEGITIMATE", amount |-> 14999],
     [label |-> "Nitrogen  Fill", assessment |-> "EXCESSIVE"]}

DetailFeeLists ==
    {[kind |-> "undefined", items |-> <<>>]}
    \cup {[kind |-> "array", items |-> l] :
            l \in UNION {[1..n -> DetailFees] : n \in 0..MaxFees}}

Summaries ==
    {[kind |-> "object", offer_price |-> o, tax |-> t, fees |-> f] :
        o \in {Dbl(0), Dbl(6000000)}, t \in {DblUndefined, Dbl(150050)},
        f \in DetailFeeLists}

\* the messages of a conversation, by the text that follows each label
\* ("" where the message does not hold the label)
Messages ==
    {[adjustedPrice |-> "24,500.00", balance |-> "", tax |-> ""],
     [adjustedPrice |-> "", balance |-> "27,000.00", tax |-> ""],
     [adjustedPrice |-> "", balance |-> "", tax |-> "1,200.25"],
     [adjustedPrice |-> "TBD", balance |-> "", tax |-> ""]}

Conversations ==
    {[kind |-> "undefined", items |-> <<>>]}
    \cup {[kind |-> "array", items |-> l] :
            l \in UNION {[1..n -> Messages] : n \in 0..MaxMessages}}

AdInfos == {Null, [kind |-> "row", price |-> Dbl(2600000)]}

NoSummary == [kind |-> "undefined"]

NoConversation == [kind |-> "undefined", items |-> <<>>]

\* the conversations explored with a summary: the loop runs only when the
\* summary has no offer price, so longer conversations go with those
ConversationsFor(summary) ==
    IF summary.offer_price = Dbl(0) THEN Conversations
    ELSE {c \in Conversations : Len(c.items) <= 1}

\* the tasks of deal dealId: a RISK_ASSESSMENT_UPDATE task (none, one whose
\* payload does not parse, one with a summary) and an INVOKE_DEAL_ACTION
\* task (none, or one with meta.request.conversation and
\* meta.deal_risk_summary)
TaskSets(dealId) ==
    {[risk |-> s, invoke |-> [kind |-> "none"]] : s \in Summaries}
    \cup UNION {{[risk |-> s, invoke |-> [kind |-> "task", conversation |-> c,
                                         deal_risk_summary |-> NoSummary]] :
                   c \in ConversationsFor(s) \ {NoConversation}} : s \in Summaries}
    \cup UNION {{[risk |-> [kind |-> "none"],
                  invoke |-> [kind |-> "task", conversation |-> c,
                              deal_risk_summary |-> s]] :
                   c \in ConversationsFor(s)} : s \in Summaries}
    \cup {[risk |-> [kind |-> "unparsable"],
           invoke |-> [kind |-> "task", conversation |-> NoConversation,
                       deal_risk_summary |-> s]] : s \in Summaries}
    \cup {[risk |-> [kind |-> k], invoke |-> [kind |-> "none"]] :
            k \in {"none", "unparsable"}}

\* the database as one request finds it: unreachable, without the deal,
\* or with the deal, its ad_info row and its tasks
DealDetailsDbs(dealId) ==
    {[up |-> FALSE, deal |-> FALSE, adInfo |-> Null,
      tasks |-> [risk |-> [kind |-> "none"], invoke |-> [kind |-> "none"]]],
     [up |-> TRUE, deal |-> FALSE, adInfo |-> Null,
      tasks |-> [risk |-> [kind |-> "none"], invoke |-> [kind |-> "none"]]]}
    \cup {[up |-> TRUE, deal |-> TRUE, adInfo |-> a, tasks |-> t] :
            a \in AdInfos, t \in TaskSets(dealId)}

GetDealDetails ==
    /\ pc = "idle"
    /\ \E dealId \in DealIds :
          \E db \in DealDetailsDbs(dealId) :
             /\ call' = [op |-> "GET /api/deal-details/:dealId", dealId |-> dealId, db |-> db]
             /\ ret' = DealDetailsResponse(dealId, db)
    /\ pc' = "returned"
    /\ UNCHANGED <<GRADING_THRESHOLDS, callerDeals, called, smartMCPClient>>

NextDetails == GetDealDetails \/ Return

SpecDetails == Init /\ [][NextDetails]_vars

\* the deal-details handler has answered with a risk analysis
ReturnedRiskAnalysis ==
    /\ pc = "returned"
    /\ call.op = "GET /api/deal-details/:dealId"
    /\ ret.status = 200
    /\ ret.body.risk_analysis # Null

\* the summary the answered risk analysis was computed from
SummaryOfCall ==
    IF call.db.tasks.risk.kind = "object" THEN call.db.tasks.risk
    ELSE call.db.tasks.invoke.deal_risk_summary

\* a 'Balance:' value was parsed from the conversation of the request
BalanceParsed ==
    /\ SummaryOfCall.offer_price = Dbl(0)
    /\ call.db.tasks.invoke.kind = "task"
    /\ call.db.tasks.invoke.conversation.kind = "array"
    /\ \E i \in DOMAIN call.db.tasks.invoke.conversation.items :
          ParseMoney(call.db.tasks.invoke.conversation.items[i].balance) >= 0

\* C23: the current bottom line price of the risk analysis is basePrice +
\* tax + totalFees, basePrice being the offer price when it is above 0 and
\* the internet price otherwise, on both paths; a parsed balance is never
\* what is reported unless the sum happens to equal it
C23_BottomLineReconstructed ==
    ReturnedRiskAnalysis =>
        LET ra == ret.body.risk_analysis
            basePrice == IF ra.offer_price.n > 0 THEN ra.offer_price
                         ELSE ra.internet_price
            sum == DblAdd(DblAdd(basePrice, ra.tax), ra.fee_breakdown.total)
        IN  /\ ra.bottom_line_price = sum
            /\ ra.current_bottom_line_price = sum
            /\ ra.fee_breakdown.total = DetailFeeSums(SummaryOfCall.fees).totalFees

\* a balance of 27,000.00 was parsed on the deal_risk_summary path and the
\* reported price is the sum 24,500.00 + 0 + 85.00 instead
C23_Witness ==
    /\ ReturnedRiskAnalysis
    /\ BalanceParsed
    /\ call.db.tasks.risk.kind # "object"
    /\ ret.body.risk_analysis.bottom_line_price = Dbl(2458500)

\* illegitimateFees - 100 as a double: 149.99 - 100 is 49.99000000000001,
\* one ulp above 49.99, and so is 299.98 - 100 above 199.98
DblLess100(x) ==
    IF x.kind # "number" THEN DblNaN
    ELSE [kind |-> "number", n |-> x.n - 10000,
          ulps |-> IF x.n \in {14999, 29998} THEN 1 ELSE 0]

\* C24: the fair bottom line price is the current one less the
\* illegitimate fees, plus 100 when the current price is under 50000, and
\* the reported difference is the illegitimate fees when the current
\* price is at least 50000 and the illegitimate fees less 100 otherwise
C24_DifferenceIsIllegitimateFees ==
    ReturnedRiskAnalysis =>
        LET ra == ret.body.risk_analysis
            current == ra.current_bottom_line_price
            illegitimate == ra.illegitimate_fees
            atLeast50000 == current.kind = "number" /\ current.n >= 5000000
            less == DblAdd(current, [illegitimate EXCEPT !.n = 0 - @])
        IN  /\ ra.fair_bottom_line_price =
                  IF atLeast50000 \/ current.kind # "number" THEN less
                  ELSE DblAdd(less, Dbl(10000))
            /\ ra.bottom_line_price_difference =
                  IF atLeast50000 THEN illegitimate ELSE DblLess100(illegitimate)

\* where the difference is the claimed double: a deal under 50000 of
\* whole-dollar amounts whose only fee is normal reports -100
C24_ExactCase ==
    /\ ReturnedRiskAnalysis
    /\ ret.body.risk_analysis.illegitimate_fees = Dbl(0)
    /\ ret.body.risk_analysis.current_bottom_line_price = Dbl(2608500)
    /\ ret.body.risk_analysis.bottom_line_price_difference = Dbl(0 - 10000)

\* the deal that shows the divergence: internet price 26000, no offer, no
\* tax, one illegitimate fee of 149.99; the difference is 225 ulps above 49.99
C24_InexactCase ==
    /\ ReturnedRiskAnalysis
    /\ ret.body.risk_analysis.current_bottom_line_price = Dbl(2614999)
    /\ ret.body.risk_analysis.fair_bottom_line_price = Dbl(2610000)
    /\ ret.body.risk_analysis.bottom_line_price_difference =
          [kind |-> "number", n |-> 4999, ulps |-> 225]

\* ------------------------------------------------------------------------
\* smart_dealer_analyzer.mjs: SmartMCPClient
\* ------------------------------------------------------------------------

\* largest maxRetries option passed to callTool
MaxRetry == 2

\* new SmartMCPClient(): the current client is the main one when it is
\* available and the lightweight one otherwise
SmartMCPClient(mainAvailable, lightAvailable) ==
    [constructed |-> TRUE,
     mainAvailable |-> mainAvailable,
     lightAvailable |-> lightAvailable,
     currentMCP |-> IF mainAvailable THEN "main-playwright"
                    ELSE "lightweight-playwright"]

\* options.maxRetries || 1
MaxRetriesOf(options) ==
    IF options.maxRetries.kind = "number" /\ options.maxRetries.n # 0
    THEN options.maxRetries.n ELSE 1

TokenLimitMessage == "MCP tool response (31245 tokens) exceeds maximum allowed tokens (25000)"

TimeoutMessage == "Navigation timeout of 30000 ms exceeded"

NoClientMessage == "Cannot read properties of undefined (reading 'tools')"

NoResultMessage == "Cannot read properties of undefined (reading 'length')"

\* `Response too large: ${responseSize} chars (likely token limit)`: the
\* text of responseSize is not part of what the handler looks for
TooLargeMessage == "Response too large: N chars (likely token limit)"

\* error.message.includes(needle), over the messages above
Includes(message, needle) ==
    <<message, needle>> \in
        {<<TokenLimitMessage, "token">>, <<TokenLimitMessage, "25000">>,
         <<TokenLimitMessage, "exceeds maximum">>,
         <<TooLargeMessage, "token">>, <<TooLargeMessage, "Response too large">>}

isTokenError(message) ==
    \/ Includes(message, "token")
    \/ Includes(message, "25000")
    \/ Includes(message, "Response too large")
    \/ Includes(message, "exceeds maximum")

\* what awaiting this.currentMCP.client.tools.call can do: resolve with a
\* result of some serialized length, resolve with undefined, or reject;
\* a client that is not available has no tools
ClientOutcomes(smart) ==
    IF \/ smart.currentMCP = "main-playwright" /\ ~smart.mainAvailable
       \/ smart.currentMCP = "lightweight-playwright" /\ ~smart.lightAvailable
    THEN {[kind |-> "rejects", message |-> NoClientMessage, size |-> 0]}
    ELSE {[kind |-> "result", message |-> "", size |-> n] : n \in {812, 20000, 20001}}
         \cup {[kind |-> "undefined", message |-> "", size |-> 0]}
         \cup {[kind |-> "rejects", message |-> m, size |-> 0] :
                 m \in {TokenLimitMessage, TimeoutMessage}}

\* the error the try block ends with, "" when it returns the result
ErrorOf(outcome) ==
    CASE outcome.kind = "rejects" -> outcome.message
      [] outcome.kind = "undefined" -> NoResultMessage
      [] outcome.kind = "result" /\ outcome.size > 20000 -> TooLargeMessage
      [] OTHER -> ""

\* a catch block that falls back on every error
FallsBack_AnyError(smart, message) ==
    /\ smart.currentMCP = "main-playwright"
    /\ smart.lightAvailable

\* the catch block switches to the lightweight client and retries
FallsBack(smart, message) ==
    /\ isTokenError(message)
    /\ smart.currentMCP = "main-playwright"
    /\ smart.lightAvailable

ToolNames == {"browser_navigate", "browser_evaluate"}

MaxRetriesOptions == {Undefined} \cup {Num(n) : n \in (0 - 1)..MaxRetry}

\* callTool(toolName, params, options) is entered
CallTool ==
    /\ pc = "idle"
    /\ smartMCPClient.constructed
    /\ \E toolName \in ToolNames, option \in MaxRetriesOptions :
          call' = [op |-> "callTool", toolName |-> toolName,
                   maxRetries |-> MaxRetriesOf([maxRetries |-> option]),
                   attempt |-> 0, calls |-> <<>>]
    /\ pc' = "callTool"
    /\ UNCHANGED <<GRADING_THRESHOLDS, ret, callerDeals, called, smartMCPClient>>

\* one iteration of the loop: the call on the current client, and the
\* return, the fallback or the throw that follows it
Attempt ==
    /\ pc = "callTool"
    /\ call.attempt < call.maxRetries + 1
    /\ \E outcome \in ClientOutcomes(smartMCPClient) :
          LET error == ErrorOf(outcome)
              made == Append(call.calls, [client |-> smartMCPClient.currentMCP,
                                          toolName |-> call.toolName,
                                          error |-> error])
          IN  IF error = ""
              THEN /\ ret' = [kind |-> "returned", value |-> outcome]
                   /\ pc' = "returned"
                   /\ call' = [call EXCEPT !.calls = made]
                   /\ UNCHANGED smartMCPClient
              ELSE IF FallsBack(smartMCPClient, error)
              THEN /\ smartMCPClient' = [smartMCPClient EXCEPT
                                           !.currentMCP = "lightweight-playwright"]
                   /\ call' = [call EXCEPT !.calls = made, !.attempt = @ + 1]
                   /\ UNCHANGED <<pc, ret>>
              ELSE /\ ret' = [kind |-> "threw", message |-> error]
                   /\ pc' = "returned"
                   /\ call' = [call EXCEPT !.calls = made]
                   /\ UNCHANGED smartMCPClient
    /\ UNCHANGED <<GRADING_THRESHOLDS, callerDeals, called>>

\* the loop condition fails: the function ends without a return statement
LoopEnds ==
    /\ pc = "callTool"
    /\ ~(call.attempt < call.maxRetries + 1)
    /\ ret' = [kind |-> "returned", value |-> [kind |-> "undefined", message |-> "", size |-> 0]]
    /\ pc' = "returned"
    /\ UNCHANGED <<GRADING_THRESHOLDS, call, callerDeals, called, smartMCPClient>>

InitClient ==
    /\ GRADING_THRESHOLDS = THRESHOLDS_INIT
    /\ pc = "idle"
    /\ call = NoCall
    /\ ret = NoRet
    /\ callerDeals = NoDeals
    /\ called = FALSE
    /\ smartMCPClient \in {SmartMCPClient(m, l) : m, l \in BOOLEAN}

NextClient == CallTool \/ Attempt \/ LoopEnds \/ Return

SpecClient == InitClient /\ [][NextClient]_vars

\* this step made a call on a client
MadeCall ==
    /\ pc = "callTool"
    /\ Len(call'.calls) = Len(call.calls) + 1

\* the call this step made
LastCall == call'.calls[Len(call'.calls)]

\* C25: the current client changes only from the main to the lightweight
\* one, only on a token-limit error or an oversized response of the main
\* client while the lightweight one is available, and the same tool is
\* then called on the lightweight client; it never changes back, and any
\* other error is thrown with the current client unchanged
C25_OneWayFallback ==
    [][LET tokenErrorOnMain ==
               /\ MadeCall
               /\ LastCall.client = "main-playwright"
               /\ isTokenError(LastCall.error)
               /\ smartMCPClient.lightAvailable
       IN  /\ smartMCPClient.currentMCP = "lightweight-playwright"
                => smartMCPClient'.currentMCP = "lightweight-playwright"
           /\ smartMCPClient'.currentMCP # smartMCPClient.currentMCP
                => tokenErrorOnMain
           /\ tokenErrorOnMain
                => /\ smartMCPClient'.currentMCP = "lightweight-playwright"
                   /\ pc' = "callTool"
                   /\ call'.attempt < call'.maxRetries + 1
           /\ (MadeCall /\ call.calls # <<>>)
                => /\ LastCall.client = "lightweight-playwright"
                   /\ LastCall.toolName = call.calls[Len(call.calls)].toolName
                   /\ call.calls[Len(call.calls)].client = "main-playwright"
                   /\ isTokenError(call.calls[Len(call.calls)].error)
           /\ (MadeCall /\ LastCall.error # "" /\ ~isTokenError(LastCall.error))
                => /\ smartMCPClient'.currentMCP = smartMCPClient.currentMCP
                   /\ pc' = "returned"
                   /\ ret' = [kind |-> "threw", message |-> LastCall.error]
      ]_vars

\* a later call, made after an oversized response of the main client was
\* retried on the lightweight client, runs on the lightweight client
C25_Witness ==
    /\ called
    /\ pc = "returned"
    /\ call.op = "callTool"
    /\ smartMCPClient.mainAvailable
    /\ Len(call.calls) = 1
    /\ call.calls[1].client = "lightweight-playwright"
    /\ ret.kind = "returned"

\* the retry itself: the main client's response was too large, the same
\* tool was called on the lightweight client and its result returned
C25_Retried ==
    /\ pc = "returned"
    /\ call.op = "callTool"
    /\ Len(call.calls) = 2
    /\ call.calls[1] = [client |-> "main-playwright", toolName |-> "browser_evaluate",
                        error |-> TooLargeMessage]
    /\ call.calls[2] = [client |-> "lightweight-playwright", toolName |-> "browser_evaluate",
                        error |-> ""]
    /\ ret.kind = "returned"

\* C26: a completed callTool has returned a tool result of at most 20000
\* serialized characters or has thrown an error
C26_ResultOrError ==
    (pc = "returned" /\ call.op = "callTool") =>
        \/ ret.kind = "threw"
        \/ /\ ret.kind = "returned"
           /\ ret.value.kind = "result"
           /\ ret.value.size <= 20000

\* callTool with maxRetries -1 has completed without calling any client
C26_ReturnedNothing ==
    /\ pc = "returned"
    /\ call.op = "callTool"
    /\ call.maxRetries = 0 - 1
    /\ call.calls = <<>>
    /\ ret.kind = "returned"
    /\ ret.value.kind = "undefined"

\* ------------------------------------------------------------------------
\* car_extract_batches.mjs: dedupe and the batch loop of main
\* ------------------------------------------------------------------------

\* most items in an array handed to dedupe
MaxItems == 3

\* const limit = 15
limit == 15

\* s.toLowerCase(), over the makes and models below
ToLowerCase(s) ==
    CASE s = "Toyota" -> "toyota"
      [] s = "TOYOTA" -> "toyota"
      [] s = "Camry" -> "camry"
      [] OTHER -> s

\* the key of an item: the VIN when it is not empty, otherwise year, make,
\* model, price and mileage; a text field is "" when absent, a number is 0
\* when absent or 0, which `${n || ""}` both write as the empty text, and
\* the parts hold no hyphen, so the tuple stands for the template string
KeyOf(it) ==
    IF it.vin # "" THEN <<"VIN:", it.vin, 0, "", "", 0, 0>>
    ELSE <<"K:", "", it.year, ToLowerCase(it.make), ToLowerCase(it.model),
           it.price, it.mileage>>

\* a dedupe that never records a key
dedupe_NothingSeen(items) == items

RECURSIVE dedupeFrom(_, _, _, _)
\* for (const it of items), from item k on
dedupeFrom(items, k, seen, out) ==
    IF k > Len(items) THEN out
    ELSE LET key == KeyOf(items[k])
         IN  IF key \in seen THEN dedupeFrom(items, k + 1, seen, out)
             ELSE dedupeFrom(items, k + 1, seen \cup {key}, Append(out, items[k]))

dedupe(items) == dedupeFrom(items, 1, {}, <<>>)

\* items as the page scripts produce them
Cars ==
    {[vin |-> "1HGCM82633A004352", year |-> 2020, make |-> "Toyota", model |-> "Camry",
      price |-> 25000, mileage |-> 30000],
     [vin |-> "1HGCM82633A004352", year |-> 2020, make |-> "Toyota", model |-> "Camry",
      price |-> 24000, mileage |-> 30000],
     [vin |-> "", year |-> 2020, make |-> "Toyota", model |-> "Camry",
      price |-> 25000, mileage |-> 30000],
     [vin |-> "", year |-> 2020, make |-> "TOYOTA", model |-> "camry",
      price |-> 25000, mileage |-> 30000],
     [vin |-> "", year |-> 2021, make |-> "honda", model |-> "civic",
      price |-> 0, mileage |-> 0]}

ItemLists == UNION {[1..n -> Cars] : n \in 0..MaxItems}

\* dedupe(items) is called
CallDedupe ==
    /\ pc = "idle"
    /\ \E items \in ItemLists :
          /\ call' = [op |-> "dedupe", items |-> items]
          /\ ret' = [kind |-> "returned", value |-> dedupe(items)]
    /\ pc' = "returned"
    /\ UNCHANGED <<GRADING_THRESHOLDS, callerDeals, called, smartMCPClient>>

\* the total values a fetchBatch response can report
Totals == {Undefined, Null, Num(40), Num(9000)}

\* what awaiting fetchBatch can give: a parsed response { total, count,
\* items }, or an error when the response is not ok; a non-empty batch
\* carries one item until grand holds MaxItems of them, and none after
Responses(grand) ==
    {[ok |-> TRUE, total |-> t, count |-> 0, items |-> <<>>] : t \in Totals}
    \cup {[ok |-> TRUE, total |-> t, count |-> c, items |-> i] :
            t \in Totals, c \in {7, limit},
            i \in IF Len(grand) < MaxItems
                  THEN {<<car>> : car \in {c1 \in Cars : c1.vin # ""}}
                  ELSE {<<>>}}
    \cup {[ok |-> FALSE, total |-> Num(0), count |-> 0, items |-> <<>>]}

\* a loop that never compares the offset with the total
OffsetReaches_Never(offset, total) == FALSE

\* offset >= total: null counts as 0, undefined compares false
OffsetReaches(offset, total) ==
    CASE total.kind = "number" -> offset >= total.n
      [] total.kind = "null" -> offset >= 0
      [] OTHER -> FALSE

\* what main does after the loop: the final dedupe and the summary line
\* (total ?? grand.length)
Written(total, grand) ==
    [kind |-> "exit",
     totalSeen |-> IF total.kind = "number" THEN total.n ELSE Len(grand),
     written |-> Len(dedupe(grand)),
     json |-> dedupe(grand)]

\* main() is started with --no-llm: offset 0, grand empty, total null
StartMain ==
    /\ pc = "idle"
    /\ call' = [op |-> "main", offset |-> 0, total |-> Null, grand |-> <<>>,
                fetched |-> 0, last |-> "none"]
    /\ pc' = "main"
    /\ UNCHANGED <<GRADING_THRESHOLDS, ret, callerDeals, called, smartMCPClient>>

\* one iteration of while (true): the fetch, and the break or the next
\* offset; fetched counts the fetchBatch calls and last tells how the
\* iteration ended
FetchBatch ==
    /\ pc = "main"
    /\ \E response \in Responses(call.grand) :
          LET total == IF call.total.kind = "null" THEN response.total ELSE call.total
              grand == call.grand \o response.items
              offset == call.offset + limit
              fetched == call.fetched + 1
          IN  IF ~response.ok
              THEN /\ ret' = [kind |-> "threw", message |-> "browser_evaluate returned error"]
                   /\ call' = [call EXCEPT !.fetched = fetched, !.last = "threw"]
                   /\ pc' = "returned"
              ELSE IF response.count = 0
              THEN /\ ret' = Written(total, call.grand)
                   /\ call' = [call EXCEPT !.total = total, !.fetched = fetched,
                                           !.last = "empty"]
                   /\ pc' = "returned"
              ELSE IF OffsetReaches(offset, total) \/ offset > 5000
              THEN /\ ret' = Written(total, grand)
                   /\ call' = [call EXCEPT !.total = total, !.fetched = fetched,
                                           !.offset = offset, !.grand = grand,
                                           !.last = IF OffsetReaches(offset, total)
                                                    THEN "total" ELSE "guard"]
                   /\ pc' = "returned"
              ELSE /\ call' = [call EXCEPT !.total = total, !.fetched = fetched,
                                           !.offset = offset, !.grand = grand,
                                           !.last = "next"]
                   /\ UNCHANGED <<pc, ret>>
    /\ UNCHANGED <<GRADING_THRESHOLDS, callerDeals, called, smartMCPClient>>

NextExtract == CallDedupe \/ StartMain \/ FetchBatch \/ Return

\* the awaited fetch of a running main is eventually answered
SpecExtract == Init /\ [][NextExtract]_vars /\ WF_vars(FetchBatch)

\* main is running or has ended
InMain == call.op = "main"

\* C27: the batch loop ends for every sequence of responses: the offset
\* is 15 times the number of batches taken, the loop runs on only while
\* the offset is under the total of the first batch and at most 5000, it
\* ends on the first empty batch, on reaching the total or on passing
\* 5000, and no more than 334 batches are fetched
C27_BatchLoopTerminates ==
    /\ [](InMain =>
            /\ call.fetched <= 334
            /\ pc = "main" =>
                  /\ call.offset = limit * call.fetched
                  /\ call.offset <= 5000
                  /\ call.total.kind = "number" => call.offset < call.total.n
                  /\ call.fetched > 0 => call.total.kind # "null"
            /\ (pc = "returned" /\ call.last = "empty") =>
                  call.offset = limit * (call.fetched - 1)
            /\ (pc = "returned" /\ call.last = "total") =>
                  /\ call.offset = limit * call.fetched
                  /\ call.offset - limit <= 5000
                  /\ \/ call.total.kind = "null"
                     \/ call.total.kind = "number" /\ call.offset >= call.total.n
                        /\ (call.fetched > 1 => call.offset - limit < call.total.n)
            /\ (pc = "returned" /\ call.last = "guard") =>
                  /\ call.offset = limit * call.fetched
                  /\ call.offset > 5000
                  /\ call.offset - limit <= 5000)
    /\ [][(InMain /\ call.fetched > 0 /\ call'.op = "main") => call'.total = call.total]_vars
    /\ (pc = "main" ~> pc = "returned")

\* the guard ended a run whose total is never reached: 334 batches were
\* fetched and the offset is 5010
C27_Witness ==
    /\ InMain
    /\ pc = "returned"
    /\ call.last = "guard"
    /\ call.fetched = 334
    /\ call.offset = 5010
    /\ call.total = Num(9000)

\* dedupe has returned
ReturnedDedupe ==
    /\ pc = "returned"
    /\ call.op = "dedupe"

RECURSIVE IsSubsequence(_, _)
\* out is items with some of its entries left out
IsSubsequence(out, items) ==
    IF out = <<>> THEN TRUE
    ELSE IF items = <<>> THEN FALSE
    ELSE IF Head(out) = Head(items) THEN IsSubsequence(Tail(out), Tail(items))
    ELSE IsSubsequence(out, Tail(items))

\* the first position of a key in items
FirstWithKey(items, key) ==
    CHOOSE i \in DOMAIN items :
        /\ KeyOf(items[i]) = key
        /\ \A j \in 1..(i - 1) : KeyOf(items[j]) # key

\* C28: dedupe returns a subsequence of its input in the original order
\* that holds, for each key of the input, the first item of that key and
\* no other, and deduping the output again returns it unchanged; so does
\* the list main writes from the items of its batches
C28_DedupeKeepsFirstPerKey ==
    (ReturnedDedupe \/ (InMain /\ pc = "returned" /\ ret.kind = "exit")) =>
        LET items == IF InMain THEN call.grand ELSE call.items
            out == IF InMain THEN ret.json ELSE ret.value
            keys == {KeyOf(items[i]) : i \in DOMAIN items}
        IN  /\ IsSubsequence(out, items)
            /\ \A i, j \in DOMAIN out : i # j => KeyOf(out[i]) # KeyOf(out[j])
            /\ {KeyOf(out[i]) : i \in DOMAIN out} = keys
            /\ \A i \in DOMAIN out :
                  out[i] = items[FirstWithKey(items, KeyOf(out[i]))]
            /\ \A i, j \in DOMAIN out :
                  i < j => FirstWithKey(items, KeyOf(out[i])) < FirstWithKey(items, KeyOf(out[j]))
            /\ dedupe(out) = out

\* a VIN seen twice with different prices and a make written in two
\* cases: the second item of each key is dropped
C28_Witness ==
    /\ ReturnedDedupe
    /\ Len(call.items) = 3
    /\ call.items[1].vin = "" /\ call.items[1].make = "TOYOTA"
    /\ call.items[2].vin # "" /\ call.items[2].price = 24000
    /\ call.items[3].vin = "" /\ call.items[3].make = "Toyota"
    /\ ret.value = <<call.items[1], call.items[2]>>

\* ------------------------------------------------------------------------
\* mcp_chunked_eval.mjs and chunked_dealer_analysis.mjs: evaluateTextChunks
\* ------------------------------------------------------------------------

\* largest maxChunks option
MaxChunks == 3

\* slices of page text, each by its length, its length after
\* normalizeText, the length of extractCarListingLines of the normalized
\* text and the length of the fee-line filter of the raw text: the empty
\* text, a blank one ("  \n\t \n "), a listing of two cars with a heading
\* and a fee line, and three lines of prose
Texts ==
    {[name |-> "empty", length |-> 0, normalized |-> 0, listing |-> 0, fee |-> 0],
     [name |-> "blank", length |-> 7, normalized |-> 0, listing |-> 0, fee |-> 0],
     [name |-> "listing", length |-> 137, normalized |-> 124, listing |-> 86, fee |-> 58],
     [name |-> "prose", length |-> 110, normalized |-> 110, listing |-> 0, fee |-> 0]}

\* slice.length once the slice is normalized and filtered: the listing
\* lines replace the normalized slice when longer than 80 characters; in
\* chunked_dealer_analysis.mjs the raw slice is kept unless the fee lines
\* are longer than 20
SliceLength(version, text, applyFilter) ==
    IF version = "mcp_chunked_eval.mjs"
    THEN IF applyFilter /\ text.listing > 80 THEN text.listing ELSE text.normalized
    ELSE IF applyFilter /\ text.length > 0 /\ text.fee > 20 THEN text.fee ELSE text.length

\* what the tool answers: the JSON of the page script with a slice and the
\* length of the page text (end is the end the script was sent), or an
\* answer that does not parse or is not ok
ChunkResponses(end) ==
    {[ok |-> TRUE, slice |-> t, totalLen |-> n, end |-> end] :
        t \in Texts, n \in {0, 140, 300}}
    \cup {[ok |-> FALSE, slice |-> CHOOSE t \in Texts : t.length = 0,
           totalLen |-> 0, end |-> end]}

\* end >= totalLen with the script's own end and parsed.totalLen || 0, or
\* parsed.end >= parsed.totalLength in chunked_dealer_analysis.mjs
ReachedEnd(version, end, response) ==
    IF version = "mcp_chunked_eval.mjs" THEN end >= response.totalLen
    ELSE response.end >= response.totalLen

\* a budget check that never trips
OverBudget_Never(totalCharBudget, usedBudget, length) == FALSE

\* totalCharBudget && usedBudget + slice.length > totalCharBudget
OverBudget(totalCharBudget, usedBudget, length) ==
    totalCharBudget # 0 /\ usedBudget + length > totalCharBudget

\* evaluateTextChunks is called with its options
CallEvaluateTextChunks ==
    /\ pc = "idle"
    /\ \E version \in {"mcp_chunked_eval.mjs", "chunked_dealer_analysis.mjs"},
          maxChunks \in 0..MaxChunks, totalCharBudget \in {0, 100, 200},
          applyFilter \in BOOLEAN :
          call' = [op |-> "evaluateTextChunks", version |-> version,
                   maxCharsPerChunk |-> 140, maxChunks |-> maxChunks,
                   totalCharBudget |-> totalCharBudget, applyFilter |-> applyFilter,
                   i |-> 0, start |-> 0, usedBudget |-> 0, chunks |-> <<>>,
                   calls |-> 0, broke |-> FALSE,
                   last |-> [end |-> 0, totalLen |-> 0, length |-> 0]]
    /\ pc' = "evaluateTextChunks"
    /\ UNCHANGED <<GRADING_THRESHOLDS, ret, callerDeals, called, smartMCPClient>>

\* one iteration of the loop: the browser_evaluate call, the budget check
\* and the end check; calls counts the tool calls and last holds what the
\* end check of this iteration saw
EvaluateChunk ==
    /\ pc = "evaluateTextChunks"
    /\ ~call.broke
    /\ call.i < call.maxChunks
    /\ LET end == call.start + call.maxCharsPerChunk
       IN  \E response \in ChunkResponses(end) :
              LET length == SliceLength(call.version, response.slice, call.applyFilter)
                  remaining == call.totalCharBudget - call.usedBudget
                  called1 == [call EXCEPT !.calls = @ + 1]
                  seen == [end |-> end, totalLen |-> response.totalLen,
                           length |-> length]
                  stops == ReachedEnd(call.version, end, response) \/ length = 0
              IN  IF ~response.ok
                  THEN IF call.version = "mcp_chunked_eval.mjs"
                       THEN /\ ret' = [kind |-> "threw", message |-> "browser_evaluate error"]
                            /\ pc' = "returned"
                            /\ call' = called1
                       ELSE /\ call' = [called1 EXCEPT !.broke = TRUE]
                            /\ UNCHANGED <<pc, ret>>
                  ELSE IF OverBudget(call.totalCharBudget, call.usedBudget, length)
                  THEN /\ call' = [called1 EXCEPT
                                     !.broke = TRUE,
                                     !.chunks = IF remaining > 0
                                                THEN Append(@, [index |-> call.i,
                                                                length |-> remaining])
                                                ELSE @]
                       /\ UNCHANGED <<pc, ret>>
                  ELSE /\ call' = [called1 EXCEPT
                                     !.chunks = IF length > 0
                                                THEN Append(@, [index |-> call.i,
                                                                length |-> length])
                                                ELSE @,
                                     !.usedBudget = @ + length,
                                     !.last = seen,
                                     !.broke = stops,
                                     !.i = IF stops THEN @ ELSE @ + 1,
                                     !.start = IF stops THEN @
                                               ELSE @ + call.maxCharsPerChunk]
                       /\ UNCHANGED <<pc, ret>>
    /\ UNCHANGED <<GRADING_THRESHOLDS, callerDeals, called, smartMCPClient>>

\* the loop has ended: the chunks are returned
ReturnChunks ==
    /\ pc = "evaluateTextChunks"
    /\ call.broke \/ ~(call.i < call.maxChunks)
    /\ ret' = [kind |-> "returned", totalChunks |-> Len(call.chunks),
               chunks |-> call.chunks]
    /\ pc' = "returned"
    /\ UNCHANGED <<GRADING_THRESHOLDS, call, callerDeals, called, smartMCPClient>>

NextChunks == CallEvaluateTextChunks \/ EvaluateChunk \/ ReturnChunks \/ Return

SpecChunks == Init /\ [][NextChunks]_vars

RECURSIVE ChunkChars(_)
\* the sum of the lengths of the chunk texts
ChunkChars(chunks) ==
    IF chunks = <<>> THEN 0 ELSE Head(chunks).length + ChunkChars(Tail(chunks))

InChunks == call.op = "evaluateTextChunks"

=============================================================================
